---- MODULE Spec2Model ----
(***************************************************************************)
(* Verification model of the worktree tooling:                             *)
(*   - the dependency-install planner of scripts/git/git-worktree.sh       *)
(*     (registry, classifier, workspace-root detector, planner loop);      *)
(*   - the shadow workspace engine of packages/ticket-workspace            *)
(*     (ShadowManager, WorkspaceManager, the new/update/remove commands).  *)
(*                                                                         *)
(* Shell strings are sequences of tokens: a path component, "/", ":" and   *)
(* "\n" are tokens, so concatenation, line splitting and prefix matching   *)
(* are done on the string as the script does them.                         *)
(***************************************************************************)
EXTENDS Integers, Sequences, FiniteSets, TLC

VARIABLES
    \* ---- install planner (git-worktree.sh) ----
    base_dir,          \* $1 of install_dependencies, a path string
    tree,              \* the directory tree: path string -> directory content
    pc,                \* position inside install_dependencies
    workspace_roots,   \* the local string workspace_roots
    queue,             \* lines of `find ... | sort` not yet read
    install_dirs,      \* array install_dirs
    install_managers,  \* array install_managers
    detected,          \* every (ecosystem, dir) that detect_workspace_roots returned
    skipped,           \* directories skipped at line 209, with the covering root
    managerOf,         \* result of get_manager_for_dir for each visited directory
    \* ---- shadow workspace engine (ticket-workspace) ----
    disk,              \* the file system: absolute path -> node
    config,            \* the shadow section of the configuration file
    lastOp,            \* the last engine operation: arguments, report, earlier listing
    faults,            \* the symlink calls the file system may refuse
    \* ---- main of git-worktree.sh ----
    argv,              \* the invocation: branch argument, --no-install, --no-merge
    git,               \* the repository: its worktrees, what origin has, what git answers
    mpc,               \* position inside main
    branch,            \* local branch
    worktree_dir,      \* local dir of main
    trace,             \* the commands main has issued, in order
    exit_status,       \* the exit status of the script once it has ended, else -1
    pids,              \* array pids: the state of each started install
    waited,            \* how many entries of pids the wait loop has been through
    failed             \* local failed

planVars == <<base_dir, tree, pc, workspace_roots, queue, install_dirs,
              install_managers, detected, skipped, managerOf>>

shadowVars == <<disk, config, lastOp, faults>>

scriptVars == <<argv, git, mpc, branch, worktree_dir, trace, exit_status, pids, waited, failed>>

vars == <<planVars, shadowVars, scriptVars>>

\* main of git-worktree.sh is not running
ScriptIdle ==
    /\ argv = <<>> /\ git = <<>> /\ mpc = "idle" /\ branch = <<>> /\ worktree_dir = <<>>
    /\ trace = <<>> /\ exit_status = -1 /\ pids = <<>> /\ waited = 0 /\ failed = 0

(***************************************************************************)
(* Generic helpers on token strings                                        *)
(***************************************************************************)
IsPrefix(p, s) == Len(p) <= Len(s) /\ SubSeq(s, 1, Len(p)) = p

Last(s) == s[Len(s)]

\* the element of a one-element set.  The({ e : x \in {v} }) is e with x
\* standing for the value of v, which is computed once for all its uses
The(S) == CHOOSE x \in S : TRUE

RECURSIVE IndexOfFrom(_, _, _)
IndexOfFrom(s, tok, i) ==
    IF i > Len(s) THEN 0
    ELSE IF s[i] = tok THEN i
    ELSE IndexOfFrom(s, tok, i + 1)

\* first position of tok in s, 0 when absent
IndexOf(s, tok) == IndexOfFrom(s, tok, 1)

\* split a string at every tok (the pieces between them, empty pieces kept)
RECURSIVE SplitAt(_, _)
SplitAt(s, tok) ==
    LET i == IndexOf(s, tok) IN
    IF i = 0 THEN <<s>>
    ELSE <<SubSeq(s, 1, i - 1)>> \o SplitAt(SubSeq(s, i + 1, Len(s)), tok)

(***************************************************************************)
(* Package manager registry                                                *)
(***************************************************************************)
NoWorkspace == [file |-> <<>>, pattern |-> ""]

WsFile(f) == [file |-> f, pattern |-> ""]

WsGrep(f, p) == [file |-> f, pattern |-> p]

Rule(n, d, w, e) == [name |-> n, detect |-> d, workspace |-> w, ecosystem |-> e]

\* name|detect_files|install_cmd|workspace_spec|ecosystem (install_cmd is not modelled)
MANAGERS == <<
    Rule("pnpm", << <<"pnpm-lock.yaml">> >>, WsFile(<<"pnpm-workspace.yaml">>), "js"),
    Rule("bun", << <<"bun.lockb">>, <<"bun.lock">> >>, WsGrep(<<"package.json">>, "workspaces"), "js"),
    Rule("yarn", << <<"yarn.lock">> >>, WsGrep(<<"package.json">>, "workspaces"), "js"),
    Rule("npm", << <<"package-lock.json">> >>, WsGrep(<<"package.json">>, "workspaces"), "js"),
    Rule("cargo", << <<"Cargo.toml">> >>, WsGrep(<<"Cargo.toml">>, "[workspace]"), "cargo"),
    Rule("go", << <<"go.mod">> >>, WsFile(<<"go.work">>), "go"),
    Rule("uv", << <<"uv.lock">> >>, NoWorkspace, "python"),
    Rule("poetry", << <<"poetry.lock">> >>, NoWorkspace, "python"),
    Rule("pipenv", << <<"Pipfile">> >>, NoWorkspace, "python"),
    Rule("pip", << <<"requirements.txt">> >>, NoWorkspace, "python"),
    Rule("pip-pyproject", << <<"pyproject.toml">> >>, NoWorkspace, "python"),
    Rule("bundler", << <<"Gemfile">> >>, NoWorkspace, "ruby"),
    Rule("composer", << <<"composer.json">> >>, NoWorkspace, "php"),
    Rule("dotnet", << <<"*", ".csproj">>, <<"*", ".sln">> >>, WsFile(<<"*", ".sln">>), "dotnet"),
    Rule("mix", << <<"mix.exs">> >>, NoWorkspace, "elixir"),
    Rule("swift", << <<"Package.swift">> >>, NoWorkspace, "swift"),
    Rule("dart", << <<"pubspec.yaml">> >>, NoWorkspace, "dart"),
    Rule("deno", << <<"deno.json">>, <<"deno.jsonc">> >>, NoWorkspace, "deno"),
    Rule("npm-fallback", << <<"package.json">> >>, WsGrep(<<"package.json">>, "workspaces"), "js")
>>

PRUNE_DIRS == {"node_modules", ".git", "target", "vendor", "dist", "build", ".bare",
               ".next", ".cache", "__pycache__", ".venv", ".tox", ".mypy_cache",
               ".dart_tool", ".pub-cache", "_build", "deps",
               ".build", ".swiftpm", "Packages", ".zig-cache"}

\* the empty result of a command substitution
NoManager == ""

(***************************************************************************)
(* Directory contents.  A file name is a token string (<<"go.mod">>,       *)
(* <<"App", ".sln">>); text holds the (file, substring) pairs grep finds.  *)
(***************************************************************************)
Content(fl, tx) == [files |-> fl, text |-> tx]

\* a glob with one "*" token against a file name: "*" stands for one
\* non-empty stem, the other tokens match literally
GlobMatches(pattern, fname) ==
    /\ Len(fname) = Len(pattern)
    /\ \A k \in 1..Len(pattern) : pattern[k] = "*" \/ pattern[k] = fname[k]

\* file_exists_in_dir: [[ -f dir/pattern ]] or compgen -G dir/pattern
file_exists_in_dir(dir, pattern) ==
    IF IndexOf(pattern, "*") # 0
    THEN \E f \in tree[dir].files : GlobMatches(pattern, f)
    ELSE pattern \in tree[dir].files

\* the first file compgen prints for a glob (names sort; the choice does not
\* matter to grep in the registry, no rule greps a glob)
MatchedFile(dir, ws_file) ==
    IF IndexOf(ws_file, "*") # 0
    THEN CHOOSE f \in tree[dir].files : GlobMatches(ws_file, f)
    ELSE ws_file

\* grep -q pattern file
Grep(dir, pattern, file) == <<file, pattern>> \in tree[dir].text

(***************************************************************************)
(* Package manager functions                                               *)
(***************************************************************************)
RECURSIVE DetectLoop(_, _, _)
\* the inner loop of get_manager_for_dir over detect_files
DetectLoop(dir, detect_files, j) ==
    IF j > Len(detect_files) THEN FALSE
    ELSE IF file_exists_in_dir(dir, detect_files[j]) THEN TRUE
    ELSE DetectLoop(dir, detect_files, j + 1)

RECURSIVE ManagerLoop(_, _)
\* the outer loop of get_manager_for_dir over MANAGERS
ManagerLoop(dir, i) ==
    IF i > Len(MANAGERS) THEN NoManager
    ELSE IF DetectLoop(dir, MANAGERS[i].detect, 1) THEN MANAGERS[i].name
    ELSE ManagerLoop(dir, i + 1)

\* mutant: the registry is scanned from its last entry to its first
RECURSIVE ManagerLoopReversed(_, _)
ManagerLoopReversed(dir, i) ==
    IF i < 1 THEN NoManager
    ELSE IF DetectLoop(dir, MANAGERS[i].detect, 1) THEN MANAGERS[i].name
    ELSE ManagerLoopReversed(dir, i - 1)

get_manager_for_dir_LastWins(dir) == ManagerLoopReversed(dir, Len(MANAGERS))

get_manager_for_dir(dir) == ManagerLoop(dir, 1)

RECURSIVE EcosystemLoop(_, _)
EcosystemLoop(manager_name, i) ==
    IF i > Len(MANAGERS) THEN ""
    ELSE IF MANAGERS[i].name = manager_name THEN MANAGERS[i].ecosystem
    ELSE EcosystemLoop(manager_name, i + 1)

get_ecosystem_for_manager(manager_name) == EcosystemLoop(manager_name, 1)

\* the workspace spec of one registry entry, evaluated in base (lines 137-157)
WorkspaceMatched(base, ws) ==
    IF ws.pattern # ""
    THEN /\ file_exists_in_dir(base, ws.file)
         /\ Grep(base, ws.pattern, MatchedFile(base, ws.file))
    ELSE file_exists_in_dir(base, ws.file)

RECURSIVE RootsLoopFirstOnly(_, _, _, _)
\* mutant: an ecosystem counts as seen once one of its workspace specs has
\* been evaluated, matched or not
RootsLoopFirstOnly(base, i, roots, seen) ==
    IF i > Len(MANAGERS) THEN roots
    ELSE LET r == MANAGERS[i] IN
         IF r.workspace.file = <<>> THEN RootsLoopFirstOnly(base, i + 1, roots, seen)
         ELSE IF r.ecosystem \in seen THEN RootsLoopFirstOnly(base, i + 1, roots, seen)
         ELSE IF WorkspaceMatched(base, r.workspace)
              THEN RootsLoopFirstOnly(base, i + 1,
                                      roots \o <<r.ecosystem, ":">> \o base \o <<"\n">>,
                                      seen \cup {r.ecosystem})
              ELSE RootsLoopFirstOnly(base, i + 1, roots, seen \cup {r.ecosystem})

RECURSIVE RootsLoop(_, _, _, _)
\* the loop of detect_workspace_roots: roots is the string built so far,
\* seen the ecosystems already matched
RootsLoop(base, i, roots, seen) ==
    IF i > Len(MANAGERS) THEN roots
    ELSE LET r == MANAGERS[i] IN
         IF r.workspace.file = <<>> THEN RootsLoop(base, i + 1, roots, seen)
         ELSE IF r.ecosystem \in seen THEN RootsLoop(base, i + 1, roots, seen)
         ELSE IF WorkspaceMatched(base, r.workspace)
              THEN RootsLoop(base, i + 1,
                             roots \o <<r.ecosystem, ":">> \o base \o <<"\n">>,
                             seen \cup {r.ecosystem})
              ELSE RootsLoop(base, i + 1, roots, seen)

\* what detect_workspace_roots prints: one "ecosystem:dir\n" per matched ecosystem
detect_workspace_roots(base) == RootsLoop(base, 1, <<>>, {})

\* $(...) removes every trailing newline of the captured output
RECURSIVE CommandSubstitution(_)
CommandSubstitution(out) ==
    IF out # <<>> /\ Last(out) = "\n"
    THEN CommandSubstitution(SubSeq(out, 1, Len(out) - 1))
    ELSE out

\* the ecosystem:dir pairs a captured detect_workspace_roots output names
RootsOf(captured) ==
    IF captured = <<>> THEN {}
    ELSE { [eco |-> l[1], dir |-> SubSeq(l, 3, Len(l))] : l \in
             { (SplitAt(captured, "\n"))[k] : k \in 1..Len(SplitAt(captured, "\n")) } }

\* ${root_entry%%:*}
WsEco(root_entry) ==
    LET i == IndexOf(root_entry, ":") IN
    IF i = 0 THEN root_entry ELSE SubSeq(root_entry, 1, i - 1)

\* ${root_entry#*:}
WsPath(root_entry) ==
    LET i == IndexOf(root_entry, ":") IN
    IF i = 0 THEN root_entry ELSE SubSeq(root_entry, i + 1, Len(root_entry))

NoRoot == <<"\n">>

RECURSIVE CoveredLoop(_, _, _, _)
\* the read loop of is_covered_by_workspace over the lines of the here-string;
\* yields the ws_path of the entry that returns 0, NoRoot for return 1
CoveredLoop(dir, ecosystem, lines, k) ==
    IF k > Len(lines) THEN NoRoot
    ELSE LET root_entry == lines[k]
             ws_eco == WsEco(root_entry)
             ws_path == WsPath(root_entry)
         IN  IF root_entry = <<>> THEN CoveredLoop(dir, ecosystem, lines, k + 1)
             ELSE IF dir = ws_path THEN CoveredLoop(dir, ecosystem, lines, k + 1)
             ELSE IF <<ecosystem>> = ws_eco /\ IsPrefix(ws_path \o <<"/">>, dir)
                  THEN ws_path
                  ELSE CoveredLoop(dir, ecosystem, lines, k + 1)

CoveringRoot(dir, ecosystem, roots) ==
    CoveredLoop(dir, ecosystem, SplitAt(roots, "\n"), 1)

is_covered_by_workspace(dir, ecosystem, roots) ==
    CoveringRoot(dir, ecosystem, roots) # NoRoot

(***************************************************************************)
(* find | sort                                                             *)
(***************************************************************************)
\* the bytes of the tokens that occur in paths (sort compares bytes)
Bytes(tok) ==
    CASE tok = "/" -> <<47>>
      [] tok = "repo" -> <<114, 101, 112, 111>>
      [] tok = "wt" -> <<119, 116>>
      [] tok = "build" -> <<98, 117, 105, 108, 100>>
      [] tok = "api" -> <<97, 112, 105>>
      [] tok = "web" -> <<119, 101, 98>>
      [] tok = "app1" -> <<97, 112, 112, 49>>
      [] tok = "app2" -> <<97, 112, 112, 50>>
      [] tok = "node_modules" -> <<110, 111, 100, 101, 95, 109, 111, 100, 117, 108, 101, 115>>
      [] tok = "pkg" -> <<112, 107, 103>>

RECURSIVE PathBytes(_)
PathBytes(path) ==
    IF path = <<>> THEN <<>> ELSE Bytes(Head(path)) \o PathBytes(Tail(path))

RECURSIVE BytesLess(_, _)
\* strict lexicographic order on byte strings (sort in the C locale)
BytesLess(a, b) ==
    IF b = <<>> THEN FALSE
    ELSE IF a = <<>> THEN TRUE
    ELSE IF Head(a) # Head(b) THEN Head(a) < Head(b)
    ELSE BytesLess(Tail(a), Tail(b))

RECURSIVE Sort(_)
\* the lines of a set of paths in sorted order
Sort(paths) ==
    IF paths = {} THEN <<>>
    ELSE LET first == CHOOSE x \in paths :
                        \A y \in paths \ {x} : BytesLess(PathBytes(x), PathBytes(y))
         IN  <<first>> \o Sort(paths \ {first})

\* the name find tests with -name: the last component of the path
Basename(path) == Last(path)

\* find base -name p1 -prune -o ... -type d -print: every directory from base
\* down that has no pruned name on the way from base (base included) to itself
Find(base) ==
    { d \in DOMAIN tree :
        /\ IsPrefix(base, d)
        /\ \A k \in Len(base)..Len(d) : d[k] = "/" \/ d[k] \notin PRUNE_DIRS }

(***************************************************************************)
(* Directory trees the planner is run on                                   *)
(***************************************************************************)
PkgJson == <<"package.json">>

pEmpty == Content({}, {})

pGo == Content({<<"go.mod">>}, {})

pGoWork == Content({<<"go.mod">>, <<"go.work">>}, {})

pPnpmWs == Content({<<"pnpm-lock.yaml">>, <<"pnpm-workspace.yaml">>}, {})

pPkg == Content({PkgJson}, {})

pPkgWs == Content({PkgJson}, {<<PkgJson, "workspaces">>})

pLocks == Content({<<"pnpm-lock.yaml">>, <<"package-lock.json">>, PkgJson}, {})

pWsOnly == Content({<<"pnpm-workspace.yaml">>}, {})

pGoJsWs == Content({<<"go.mod">>, PkgJson}, {<<PkgJson, "workspaces">>})

pDotnet == Content({<<"App", ".csproj">>, <<"App", ".sln">>}, {})

pBun == Content({<<"bun.lock">>, PkgJson}, {<<PkgJson, "workspaces">>})

pBothWs == Content({<<"pnpm-workspace.yaml">>, PkgJson}, {<<PkgJson, "workspaces">>})

RootProfiles == {pEmpty, pGo, pGoWork, pPnpmWs, pPkg, pPkgWs, pLocks, pWsOnly, pBothWs,
                 pGoJsWs, pDotnet, pBun}

SideProfiles == {pEmpty, pGo, pGoWork, pPkg, pDotnet}

LeafProfiles == {pEmpty, pGo, pPkg, pLocks}

BaseDirs == { <<"/", "repo", "/", "wt">>, <<"/", "repo", "/", "build">> }

Sub(base, names) ==
    IF Len(names) = 1 THEN base \o <<"/", names[1]>>
    ELSE base \o <<"/", names[1], "/", names[2]>>

InitPlan ==
    /\ base_dir \in BaseDirs
    /\ \E pb \in RootProfiles, pa \in SideProfiles, pw \in RootProfiles,
          p1 \in LeafProfiles, has2 \in BOOLEAN :
         tree = [ d \in { base_dir, Sub(base_dir, <<"api">>), Sub(base_dir, <<"web">>),
                          Sub(base_dir, <<"web", "app1">>),
                          Sub(base_dir, <<"node_modules">>),
                          Sub(base_dir, <<"node_modules", "pkg">>) }
                        \cup (IF has2 THEN {Sub(base_dir, <<"web", "app2">>)} ELSE {})
                  |-> IF d = base_dir THEN pb
                      ELSE IF d = Sub(base_dir, <<"api">>) THEN pa
                      ELSE IF d = Sub(base_dir, <<"web">>) THEN pw
                      ELSE IF d = Sub(base_dir, <<"web", "app1">>) THEN p1
                      ELSE IF d = Sub(base_dir, <<"node_modules">>) THEN pEmpty
                      ELSE pPkg ]
    /\ pc = "start"
    /\ workspace_roots = <<>>
    /\ queue = <<>>
    /\ install_dirs = <<>>
    /\ install_managers = <<>>
    /\ detected = {}
    /\ skipped = {}
    /\ managerOf = <<>>

(***************************************************************************)
(* install_dependencies, planning part (lines 185-222)                     *)
(***************************************************************************)
\* lines 186-193 and the start of the pipeline of line 222
InstallStart ==
    /\ pc = "start"
    /\ LET captured == CommandSubstitution(detect_workspace_roots(base_dir)) IN
       /\ workspace_roots' = captured
       /\ detected' = detected \cup RootsOf(captured)
    /\ queue' = Sort(Find(base_dir))
    /\ pc' = "scan"
    /\ UNCHANGED <<base_dir, tree, install_dirs, install_managers, skipped, managerOf>>
    /\ UNCHANGED shadowVars
    /\ UNCHANGED scriptVars

\* one iteration of the while loop of lines 198-222
VisitDir ==
    /\ pc = "scan"
    /\ queue # <<>>
    /\ LET dir == Head(queue)
           manager == get_manager_for_dir(dir)
           ecosystem == get_ecosystem_for_manager(manager)
           nested_ws == CommandSubstitution(detect_workspace_roots(dir))
       IN
       /\ queue' = Tail(queue)
       /\ managerOf' = (dir :> manager) @@ managerOf
       /\ IF manager = NoManager
          THEN UNCHANGED <<workspace_roots, detected, skipped, install_dirs, install_managers>>
          ELSE IF dir # base_dir /\ is_covered_by_workspace(dir, ecosystem, workspace_roots)
          THEN /\ skipped' = skipped \cup
                      { [dir |-> dir, eco |-> ecosystem,
                         root |-> CoveringRoot(dir, ecosystem, workspace_roots)] }
               /\ UNCHANGED <<workspace_roots, detected, install_dirs, install_managers>>
          ELSE /\ IF dir # base_dir
                  THEN /\ workspace_roots' =
                            IF nested_ws # <<>> THEN workspace_roots \o nested_ws
                            ELSE workspace_roots
                       /\ detected' = detected \cup RootsOf(nested_ws)
                  ELSE UNCHANGED <<workspace_roots, detected>>
               /\ install_dirs' = Append(install_dirs, dir)
               /\ install_managers' = Append(install_managers, manager)
               /\ UNCHANGED skipped
    /\ UNCHANGED <<base_dir, tree, pc>>
    /\ UNCHANGED shadowVars
    /\ UNCHANGED scriptVars

\* the pipeline is exhausted: the plan is complete (line 222)
PlanDone ==
    /\ pc = "scan"
    /\ queue = <<>>
    /\ pc' = "planned"
    /\ UNCHANGED <<base_dir, tree, workspace_roots, queue, install_dirs,
                   install_managers, detected, skipped, managerOf>>
    /\ UNCHANGED shadowVars
    /\ UNCHANGED scriptVars

\* the planner runs with the shadow workspace engine idle
ShadowIdle == disk = <<>> /\ config = <<>> /\ lastOp = <<>> /\ faults = {}

Init == InitPlan /\ ShadowIdle /\ ScriptIdle

Next == InstallStart \/ VisitDir \/ PlanDone

Spec == Init /\ [][Next]_vars

(***************************************************************************)
(* Properties of the install plan                                          *)
(***************************************************************************)
InstallJobs ==
    { [dir |-> install_dirs[i], manager |-> install_managers[i]] :
        i \in 1..Len(install_dirs) }

\* d lies strictly inside r
IsInside(d, r) == d # r /\ IsPrefix(r \o <<"/">>, d)

\* the registry entries of an ecosystem that declare a workspace spec
SpecRules(eco) ==
    { i \in 1..Len(MANAGERS) :
        MANAGERS[i].ecosystem = eco /\ MANAGERS[i].workspace.file # <<>> }

\* how many lines of a detect_workspace_roots output are for the ecosystem
RootLines(out, eco) ==
    Cardinality({ k \in 1..Len(out) :
        /\ out[k] = eco /\ (k = 1 \/ out[k - 1] = "\n")
        /\ k < Len(out) /\ out[k + 1] = ":" })

Ecosystems == { MANAGERS[i].ecosystem : i \in 1..Len(MANAGERS) }

\* C22 as claimed: for every directory of the tree install_dependencies is
\* about to scan and every ecosystem, detect_workspace_roots
\* prints a root exactly when the workspace spec of the first registry entry
\* of the ecosystem that declares one matches, and never two.
C22_OnlyFirstSpecEvaluated ==
    pc = "start" =>
      \A d \in DOMAIN tree : \A out \in {detect_workspace_roots(d)} : \A eco \in Ecosystems :
        /\ RootLines(out, eco) <= 1
        /\ RootLines(out, eco) = 1 <=>
              /\ SpecRules(eco) # {}
              /\ \E i \in SpecRules(eco) :
                    /\ \A j \in SpecRules(eco) : i <= j
                    /\ WorkspaceMatched(d, MANAGERS[i].workspace)

\* C22: for every directory of the tree install_dependencies is about to
\* scan and every ecosystem, detect_workspace_roots prints a
\* root exactly when the workspace spec of some registry entry of the
\* ecosystem matches (the entries are tried in registry order until one
\* matches), and never two roots for one ecosystem.
C22_FirstMatchingSpecPerEcosystem ==
    pc = "start" =>
      \A d \in DOMAIN tree : \A out \in {detect_workspace_roots(d)} : \A eco \in Ecosystems :
        /\ RootLines(out, eco) <= 1
        /\ RootLines(out, eco) = 1 <=>
              \E i \in SpecRules(eco) : WorkspaceMatched(d, MANAGERS[i].workspace)

\* the base directory is recorded as js root by a later entry's spec
\* (package.json:workspaces) although the first one (pnpm-workspace.yaml)
\* does not match, and a directory of the tree matches both
C22_Witness ==
    /\ pc = "scan"
    /\ [eco |-> "js", dir |-> base_dir] \in detected
    /\ <<"pnpm-workspace.yaml">> \notin tree[base_dir].files
    /\ \E d \in DOMAIN tree :
          /\ <<"pnpm-workspace.yaml">> \in tree[d].files
          /\ <<PkgJson, "workspaces">> \in tree[d].text

\* the base directory and its descendants with no deny-listed name on the
\* way down from the base directory (the base directory's own name aside)
Eligible ==
    { d \in DOMAIN tree :
        /\ IsPrefix(base_dir, d)
        /\ \A k \in (Len(base_dir) + 1)..Len(d) : d[k] = "/" \/ d[k] \notin PRUNE_DIRS }

\* C21: the directories the planner classifies are exactly the base
\* directory and its descendants that neither bear a deny-listed name nor
\* lie below one, whatever the base directory's own name, and they are
\* considered in an order in which a directory comes before its descendants.
C21_ClassifiesBaseAndUnprunedDescendants ==
    /\ pc = "scan" =>
          /\ \A i, j \in 1..Len(queue) : i < j => ~IsInside(queue[i], queue[j])
          /\ { queue[i] : i \in 1..Len(queue) } \cup DOMAIN managerOf = Eligible
    /\ pc = "planned" => DOMAIN managerOf = Eligible

Classified(d) == d \in DOMAIN managerOf /\ managerOf[d] # NoManager

EcoOfDir(d) == get_ecosystem_for_manager(managerOf[d])

InsideOwnRoot(d) ==
    \E r \in detected : r.eco = EcoOfDir(d) /\ IsInside(d, r.dir)

ScenarioTree ==
    /\ Sub(base_dir, <<"web", "app2">>) \in DOMAIN tree
    /\ tree[base_dir] = pEmpty
    /\ tree[Sub(base_dir, <<"api">>)] = pGo
    /\ tree[Sub(base_dir, <<"web">>)] = pPnpmWs
    /\ tree[Sub(base_dir, <<"web", "app1">>)] = pPkg
    /\ tree[Sub(base_dir, <<"web", "app2">>)] = pPkg

\* C1: in a finished plan no install job lies strictly inside a workspace root
\* that detect_workspace_roots returned for the job's own ecosystem; a classified
\* directory inside roots of other ecosystems only is a job of its own; and the
\* api/web scenario yields exactly the jobs (api, go) and (web, pnpm).
C1_NoJobInsideOwnRoot ==
    pc = "planned" =>
        /\ \A j \in InstallJobs : \A r \in detected :
              r.eco = get_ecosystem_for_manager(j.manager) => ~IsInside(j.dir, r.dir)
        /\ \A d \in DOMAIN managerOf :
              (Classified(d) /\ ~InsideOwnRoot(d)) =>
                  \E j \in InstallJobs : j.dir = d
        /\ ScenarioTree =>
              InstallJobs = { [dir |-> Sub(base_dir, <<"api">>), manager |-> "go"],
                              [dir |-> Sub(base_dir, <<"web">>), manager |-> "pnpm"] }

\* C2: every directory the planner skipped as covered by a workspace root of
\* ecosystem E has that root among the install jobs, with a manager of ecosystem E.
C2_CoveringRootIsJob ==
    pc = "planned" =>
        \A s \in skipped :
            \E j \in InstallJobs :
                j.dir = s.root /\ get_ecosystem_for_manager(j.manager) = s.eco

\* the registry entries with a detection pattern present in d
MatchingRules(d) ==
    { i \in 1..Len(MANAGERS) :
        \E j \in 1..Len(MANAGERS[i].detect) :
            LET pat == MANAGERS[i].detect[j] IN
            \E f \in tree[d].files :
                \/ f = pat
                \/ ((\E k \in 1..Len(pat) : pat[k] = "*") /\ GlobMatches(pat, f)) }

\* C3: get_manager_for_dir yields the name of the first registry entry, in
\* declared order, that has a detection pattern present in the directory, and
\* the empty result when no entry has one.
C3_FirstRuleWins ==
    \A d \in DOMAIN managerOf :
        IF MatchingRules(d) = {} THEN managerOf[d] = NoManager
        ELSE \E i \in MatchingRules(d) :
                /\ \A k \in MatchingRules(d) : i <= k
                /\ managerOf[d] = MANAGERS[i].name

\* a directory with pnpm-lock.yaml and package-lock.json was classified pnpm
C3_Witness ==
    \E d \in DOMAIN managerOf :
        /\ {<<"pnpm-lock.yaml">>, <<"package-lock.json">>} \subseteq tree[d].files
        /\ managerOf[d] = "pnpm"

(***************************************************************************)
(* main of scripts/git/git-worktree.sh (lines 485-573).                    *)
(* A branch name is the sequence of its characters.  The token "wt" of     *)
(* base_dir stands for $dir: tree is what is checked out at $worktree_path.*)
(***************************************************************************)
LowerCase == {"a", "b", "c", "d", "e", "f", "g", "h", "i", "j", "k", "l", "m",
              "n", "o", "p", "q", "r", "s", "t", "u", "v", "w", "x", "y", "z"}

UpperCase == {"A", "B", "C", "D", "E", "F", "G", "H", "I", "J", "K", "L", "M",
              "N", "O", "P", "Q", "R", "S", "T", "U", "V", "W", "X", "Y", "Z"}

Digits == {"0", "1", "2", "3", "4", "5", "6", "7", "8", "9"}

\* a character of the bracket expression [a-zA-Z0-9._-]
SafeChar(c) == c \in LowerCase \cup UpperCase \cup Digits \cup {".", "_", "-"}

\* the builtin echo takes -n, -e, -E and their combinations for options
EchoOption(s) ==
    /\ Len(s) >= 2 /\ s[1] = "-"
    /\ \A i \in 2..Len(s) : s[i] \in {"n", "e", "E"}

\* what $(echo "$branch" | ...) hands to sed, the final newline apart
Echo(s) == IF EchoOption(s) THEN <<>> ELSE s

\* sed "s/[^a-zA-Z0-9._-]/-/g"
Sed(s) == [i \in 1..Len(s) |-> IF SafeChar(s[i]) THEN s[i] ELSE "-"]

\* line 513
DirNameOf(branchName) == Sed(Echo(branchName))

Origin == <<"o", "r", "i", "g", "i", "n", "/">>

\* ${branch_arg#origin/}, line 511
StripOrigin(arg) ==
    IF IsPrefix(Origin, arg) THEN SubSeq(arg, Len(Origin) + 1, Len(arg)) ELSE arg

\* grep -q "worktree.*/$dir$" on the lines `worktree <root>/<name>`: the
\* name matches dir read as a regular expression, where "." is any character
GrepFinds(dirName, worktrees) ==
    \E w \in worktrees :
        /\ Len(w.name) = Len(dirName)
        /\ \A i \in 1..Len(dirName) : dirName[i] = "." \/ dirName[i] = w.name[i]

\* git worktree remove "$dir" without -f: the worktree is there and is clean
Removable(dirName, worktrees) ==
    \E w \in worktrees : w.name = dirName /\ ~w.dirty

\* an entry of trace: the command and its arguments
Cmd(cmd, a, b) == [cmd |-> cmd, a |-> a, b |-> b]

\* the script ends with the status
Exit(status) == exit_status' = status /\ mpc' = "exited"

\* cd "$worktree_path" succeeds: the worktree is there ("$bare_repo_root/"
\* when dir is empty)
WorktreePathExists == worktree_dir = <<>> \/ \E w \in git.worktrees : w.name = worktree_dir

\* lines 485-515: the arguments (branch_arg the first word that is none of
\* the two flags, rest the words after it), git fetch, branch and dir
MainParse ==
    /\ mpc = "args"
    /\ IF argv.branch_arg = <<>> THEN
          /\ Exit(1)
          /\ UNCHANGED <<branch, worktree_dir, trace>>
       ELSE IF argv.branch_arg[1] = "-" THEN
          /\ Exit(IF argv.branch_arg \in {<<"-", "h">>, <<"-", "-", "h", "e", "l", "p">>}
                  THEN 0 ELSE 1)
          /\ UNCHANGED <<branch, worktree_dir, trace>>
       ELSE IF argv.rest # <<>> THEN
          /\ Exit(IF argv.rest[1] \in {<<"-", "h">>, <<"-", "-", "h", "e", "l", "p">>}
                  THEN 0 ELSE 1)
          /\ UNCHANGED <<branch, worktree_dir, trace>>
       ELSE
          /\ branch' = StripOrigin(argv.branch_arg)
          /\ worktree_dir' = DirNameOf(StripOrigin(argv.branch_arg))
          /\ trace' = Append(trace, Cmd("fetch", <<>>, <<>>))
          /\ mpc' = "existing"
          /\ UNCHANGED exit_status
    /\ UNCHANGED <<argv, git, pids, waited, failed>>
    /\ UNCHANGED planVars
    /\ UNCHANGED shadowVars

\* mutant: a removal that fails is forced
ExistingWorktreeForced ==
    /\ mpc = "existing"
    /\ IF GrepFinds(worktree_dir, git.worktrees)
       THEN IF Removable(worktree_dir, git.worktrees)
            THEN /\ trace' = Append(trace, Cmd("worktree-remove", worktree_dir, "ok"))
                 /\ git' = [git EXCEPT !.worktrees =
                               { w \in @ : w.name # worktree_dir }]
            ELSE /\ trace' = trace \o << Cmd("worktree-remove", worktree_dir, "failed"),
                                         Cmd("worktree-remove-force", worktree_dir, "ok") >>
                 /\ git' = [git EXCEPT !.worktrees =
                               { w \in @ : w.name # worktree_dir }]
       ELSE UNCHANGED <<git, trace>>
    /\ mpc' = "add"
    /\ UNCHANGED <<argv, branch, worktree_dir, exit_status, pids, waited, failed>>
    /\ UNCHANGED planVars
    /\ UNCHANGED shadowVars

\* lines 517-523: a worktree of that name is removed, or the script ends
ExistingWorktree ==
    /\ mpc = "existing"
    /\ IF GrepFinds(worktree_dir, git.worktrees)
       THEN IF Removable(worktree_dir, git.worktrees)
            THEN /\ trace' = Append(trace, Cmd("worktree-remove", worktree_dir, "ok"))
                 /\ git' = [git EXCEPT !.worktrees =
                               { w \in @ : w.name # worktree_dir }]
                 /\ mpc' = "add"
                 /\ UNCHANGED exit_status
            ELSE /\ trace' = Append(trace, Cmd("worktree-remove", worktree_dir, "failed"))
                 /\ Exit(1)
                 /\ UNCHANGED git
       ELSE /\ mpc' = "add"
            /\ UNCHANGED <<git, trace, exit_status>>
    /\ UNCHANGED <<argv, branch, worktree_dir, pids, waited, failed>>
    /\ UNCHANGED planVars
    /\ UNCHANGED shadowVars

\* lines 525-536: git worktree add for $branch at $worktree_path; the
\* outcome is not looked at
WorktreeAdd ==
    /\ mpc = "add"
    /\ trace' = Append(trace, Cmd("worktree-add", branch, worktree_dir))
    /\ git' = IF /\ git.addOk /\ worktree_dir # <<>>
                 /\ ~\E w \in git.worktrees : w.name = worktree_dir
              THEN [git EXCEPT !.worktrees =
                       @ \cup { [name |-> worktree_dir, dirty |-> FALSE, branch |-> branch,
                                 mtime |-> 9, filetime |-> 0, present |-> TRUE] }]
              ELSE git
    /\ mpc' = "merge"
    /\ UNCHANGED <<argv, branch, worktree_dir, exit_status, pids, waited, failed>>
    /\ UNCHANGED planVars
    /\ UNCHANGED shadowVars

\* mutant: a merge that fails is left as it is
MergeDefaultNoAbort ==
    /\ mpc = "merge"
    /\ trace' = IF argv.skip_merge \/ ~WorktreePathExists THEN trace
                ELSE IF git.mergeOk
                THEN Append(trace, Cmd("merge", worktree_dir, "ok"))
                ELSE trace \o << Cmd("merge", worktree_dir, "conflicts"),
                                 Cmd("warn", worktree_dir, "merge conflicts") >>
    /\ git' = IF argv.skip_merge \/ ~WorktreePathExists \/ git.mergeOk THEN git
              ELSE [git EXCEPT !.merging = TRUE]
    /\ mpc' = "install"
    /\ UNCHANGED <<argv, branch, worktree_dir, exit_status, pids, waited, failed>>
    /\ UNCHANGED planVars
    /\ UNCHANGED shadowVars

\* lines 538-550: unless --no-merge, origin/$default_branch is merged in the
\* worktree; a merge that stops on conflicts leaves the merge in progress,
\* git merge --abort ends it, and the warning is issued
MergeDefault ==
    /\ mpc = "merge"
    /\ trace' = IF argv.skip_merge \/ ~WorktreePathExists THEN trace
                ELSE IF git.mergeOk
                THEN Append(trace, Cmd("merge", worktree_dir, "ok"))
                ELSE trace \o << Cmd("merge", worktree_dir, "conflicts"),
                                 Cmd("merge-abort", worktree_dir, "ok"),
                                 Cmd("warn", worktree_dir, "merge conflicts") >>
    /\ git' = IF argv.skip_merge \/ ~WorktreePathExists \/ git.mergeOk THEN git
              ELSE [ [git EXCEPT !.merging = TRUE] EXCEPT !.merging = FALSE ]
    /\ mpc' = "install"
    /\ UNCHANGED <<argv, branch, worktree_dir, exit_status, pids, waited, failed>>
    /\ UNCHANGED planVars
    /\ UNCHANGED shadowVars

\* lines 552-554: install_dependencies "$worktree_path" unless --no-install
\* (nothing is found to install when the directory is not there)
CallInstall ==
    /\ mpc = "install"
    /\ IF argv.skip_install
       THEN /\ mpc' = "copy"
            /\ UNCHANGED <<trace, pc>>
       ELSE IF ~WorktreePathExists
       THEN /\ mpc' = "copy"
            /\ trace' = Append(trace, Cmd("install_dependencies", worktree_dir, "no directory"))
            /\ UNCHANGED pc
       ELSE /\ mpc' = "installing"
            /\ trace' = Append(trace, Cmd("install_dependencies", worktree_dir, "ok"))
            /\ pc' = "start"
    /\ UNCHANGED <<argv, git, branch, worktree_dir, exit_status, pids, waited, failed>>
    /\ UNCHANGED <<base_dir, tree, workspace_roots, queue, install_dirs,
                   install_managers, detected, skipped, managerOf>>
    /\ UNCHANGED shadowVars

(***************************************************************************)
(* install_dependencies, execution part (lines 224-265)                    *)
(***************************************************************************)
\* the exit statuses of run_install_for_manager
InstallExitCodes == {0, 1}

Started == [state |-> "running", code |-> 0]

Exited(code) == [state |-> "exited", code |-> code]

\* lines 224-226: nothing to install
RunNone ==
    /\ pc = "planned" /\ mpc = "installing"
    /\ Len(install_dirs) = 0
    /\ pc' = "returned"
    /\ mpc' = "copy"
    /\ UNCHANGED <<argv, git, branch, worktree_dir, trace, exit_status, pids, waited, failed>>
    /\ UNCHANGED <<base_dir, tree, workspace_roots, queue, install_dirs,
                   install_managers, detected, skipped, managerOf>>
    /\ UNCHANGED shadowVars

\* lines 228-232: the one install is run in the foreground
RunSingle ==
    /\ pc = "planned" /\ mpc = "installing"
    /\ Len(install_dirs) = 1
    /\ \E code \in InstallExitCodes :
          trace' = IF code = 0
                   THEN Append(trace, Cmd("install", install_dirs[1], "ok"))
                   ELSE trace \o << Cmd("install", install_dirs[1], "failed"),
                                    Cmd("warn", install_dirs[1], "install failed") >>
    /\ pc' = "returned"
    /\ mpc' = "copy"
    /\ UNCHANGED <<argv, git, branch, worktree_dir, exit_status, pids, waited, failed>>
    /\ UNCHANGED <<base_dir, tree, workspace_roots, queue, install_dirs,
                   install_managers, detected, skipped, managerOf>>
    /\ UNCHANGED shadowVars

\* mutant: every iteration starts the install of the first job
StartInstallFirstJob ==
    /\ pc = "planned" /\ mpc = "installing"
    /\ Len(install_dirs) > 1
    /\ Len(pids) < Len(install_dirs)
    /\ pids' = Append(pids, Started)
    /\ trace' = Append(trace, Cmd("start", install_dirs[1], install_managers[1]))
    /\ pc' = IF Len(pids) + 1 = Len(install_dirs) THEN "waiting" ELSE pc
    /\ UNCHANGED <<argv, git, mpc, branch, worktree_dir, exit_status, waited, failed>>
    /\ UNCHANGED <<base_dir, tree, workspace_roots, queue, install_dirs,
                   install_managers, detected, skipped, managerOf>>
    /\ UNCHANGED shadowVars

\* one iteration of the loop of lines 238-248: the install of the next job
\* is started in the background; after the last one the wait loop begins
StartInstall ==
    /\ pc = "planned" /\ mpc = "installing"
    /\ Len(install_dirs) > 1
    /\ Len(pids) < Len(install_dirs)
    /\ pids' = Append(pids, Started)
    /\ trace' = Append(trace, Cmd("start", install_dirs[Len(pids) + 1],
                                  install_managers[Len(pids) + 1]))
    /\ pc' = IF Len(pids) + 1 = Len(install_dirs) THEN "waiting" ELSE pc
    /\ UNCHANGED <<argv, git, mpc, branch, worktree_dir, exit_status, waited, failed>>
    /\ UNCHANGED <<base_dir, tree, workspace_roots, queue, install_dirs,
                   install_managers, detected, skipped, managerOf>>
    /\ UNCHANGED shadowVars

\* a background install terminates (line 120-121 in its subshell)
InstallExit ==
    /\ \E i \in 1..Len(pids), code \in InstallExitCodes :
          /\ pids[i].state = "running"
          /\ pids' = [pids EXCEPT ![i] = Exited(code)]
    /\ UNCHANGED <<argv, git, mpc, branch, worktree_dir, trace, exit_status, waited, failed>>
    /\ UNCHANGED planVars
    /\ UNCHANGED shadowVars

\* mutant: wait does not block on a running install and takes it for a success
WaitInstallNoBlock ==
    /\ pc = "waiting"
    /\ waited < Len(pids)
    /\ failed' = IF pids[waited + 1].state = "exited" /\ pids[waited + 1].code # 0
                 THEN failed + 1 ELSE failed
    /\ trace' = IF pids[waited + 1].state = "exited" /\ pids[waited + 1].code # 0
                THEN Append(trace, Cmd("warn", install_dirs[waited + 1], "install failed"))
                ELSE trace
    /\ waited' = waited + 1
    /\ UNCHANGED <<argv, git, mpc, branch, worktree_dir, exit_status, pids>>
    /\ UNCHANGED planVars
    /\ UNCHANGED shadowVars

\* one iteration of the loop of lines 251-257: wait for the next pid
WaitInstall ==
    /\ pc = "waiting"
    /\ waited < Len(pids)
    /\ pids[waited + 1].state = "exited"
    /\ failed' = IF pids[waited + 1].code # 0 THEN failed + 1 ELSE failed
    /\ trace' = IF pids[waited + 1].code # 0
                THEN Append(trace, Cmd("warn", install_dirs[waited + 1], "install failed"))
                ELSE trace
    /\ waited' = waited + 1
    /\ UNCHANGED <<argv, git, mpc, branch, worktree_dir, exit_status, pids>>
    /\ UNCHANGED planVars
    /\ UNCHANGED shadowVars

\* lines 259-263: the count of failures is reported, install_dependencies returns
ReportInstalls ==
    /\ pc = "waiting" /\ mpc = "installing"
    /\ waited = Len(pids)
    /\ trace' = Append(trace, Cmd("report", failed, Len(install_dirs)))
    /\ pc' = "returned"
    /\ mpc' = "copy"
    /\ UNCHANGED <<argv, git, branch, worktree_dir, exit_status, pids, waited, failed>>
    /\ UNCHANGED <<base_dir, tree, workspace_roots, queue, install_dirs,
                   install_managers, detected, skipped, managerOf>>
    /\ UNCHANGED shadowVars

(***************************************************************************)
(* main, after install_dependencies                                        *)
(***************************************************************************)
\* a worktree of the list: the name of its directory under $bare_repo_root,
\* the branch it has checked out, the modification times of the directory
\* and of the newest of .git/index, package.json and .env (0: none of them),
\* and whether the directory is still there
Worktree(name, dirty, branchName, mtime, filetime, present) ==
    [name |-> name, dirty |-> dirty, branch |-> branchName,
     mtime |-> mtime, filetime |-> filetime, present |-> present]

MainBranch == <<"m", "a", "i", "n">>

MainWorktree == Worktree(MainBranch, FALSE, MainBranch, 1, 0, TRUE)

\* [[ "$wt_path" == *".bare" ]]
EndsWithBare(name) ==
    /\ Len(name) >= 5
    /\ SubSeq(name, Len(name) - 4, Len(name)) = <<".", "b", "a", "r", "e">>

\* lines 326-338: the directory's time, or that of a later indicator file
ModTime(w) == IF w.filetime > w.mtime THEN w.filetime ELSE w.mtime

\* lines 310-348: the names find_latest_worktree can print (none: the empty
\* line); of several with the greatest time the first of git's list is
\* printed, whichever that is
find_latest_worktree(new_worktree_dir, worktrees) ==
    { w.name : w \in
        { x \in worktrees :
            /\ ~EndsWithBare(x.name) /\ x.name # new_worktree_dir /\ x.present
            /\ ModTime(x) > 0
            /\ \A y \in worktrees :
                  (~EndsWithBare(y.name) /\ y.name # new_worktree_dir /\ y.present)
                      => ModTime(y) <= ModTime(x) } }

\* git -C "$wt_path" branch --show-current | grep -q "^${branch_name}$":
\* branch_name is read as a regular expression, where "." is any character
BranchGrep(branch_name, current) ==
    /\ current # <<>>
    /\ Len(current) = Len(branch_name)
    /\ \A i \in 1..Len(branch_name) : branch_name[i] = "." \/ branch_name[i] = current[i]

\* lines 350-364: the names find_worktree_by_branch can print: the first
\* worktree of git's list whose branch matches
find_worktree_by_branch(branch_name, worktrees) ==
    { w.name : w \in
        { x \in worktrees :
            ~EndsWithBare(x.name) /\ x.present /\ BranchGrep(branch_name, x.branch) } }

Latest == <<"l", "a", "t", "e", "s", "t">>

\* lines 366-389: g.source is the "source" of $bare_repo_root/.gitworktree
\* (empty: no file or no such key)
find_source_worktree(new_worktree_dir, g) ==
    IF g.source # <<>> THEN
        IF g.source = Latest
        THEN find_latest_worktree(new_worktree_dir, g.worktrees)
        ELSE find_worktree_by_branch(g.source, g.worktrees)
    ELSE IF find_worktree_by_branch(MainBranch, g.worktrees) # {}
    THEN find_worktree_by_branch(MainBranch, g.worktrees)
    ELSE find_latest_worktree(new_worktree_dir, g.worktrees)

\* line 557: what $source_worktree can be
SourceWorktrees == find_source_worktree(worktree_dir, git)

\* lines 556-563: the files of the source worktree are copied
CopyFiles ==
    /\ mpc = "copy"
    /\ IF SourceWorktrees = {} THEN trace' = trace
       ELSE \E source \in SourceWorktrees :
               trace' = Append(trace, Cmd("copy", source, worktree_dir))
    /\ mpc' = "ready"
    /\ UNCHANGED <<argv, git, branch, worktree_dir, exit_status, pids, waited, failed>>
    /\ UNCHANGED planVars
    /\ UNCHANGED shadowVars

\* lines 565-573: the ready message; the script ends
Ready ==
    /\ mpc = "ready"
    /\ trace' = Append(trace, Cmd("ready", worktree_dir, <<>>))
    /\ Exit(0)
    /\ UNCHANGED <<argv, git, branch, worktree_dir, pids, waited, failed>>
    /\ UNCHANGED planVars
    /\ UNCHANGED shadowVars

(***************************************************************************)
(* The invocations and repositories main is run on                         *)
(***************************************************************************)
MaxNameLen == 3

Chars == {"a", "n", "E", "7", ".", "-", "/", " "}

BranchNames == UNION { [1..m -> Chars] : m \in 1..MaxNameLen }

ExampleBranch ==
    << "f", "e", "a", "t", "u", "r", "e", "/", "A", "B", "C", "-", "1", "2", "3",
       " ", "f", "i", "x", "!" >>

BranchArgs == BranchNames \cup { Origin \o b : b \in BranchNames } \cup {ExampleBranch}

\* the branch arguments the whole of main is run with
RunArgs == { <<"a", "/", "7">>, <<"a", ".", "7">> }

\* the worktrees of the repository: main, and possibly one at the directory
\* of the branch (clean or with uncommitted changes) or one whose name
\* differs from it where it has a "."
Dev == <<"d", "e", "v">>

Fix == <<"f", "i", "x">>

\* the other worktrees of the repository: the one of main; none; the bare
\* repository, dev (an old directory with a recent .env) and fix (a newer
\* directory), without or with the one of main; fix and old, whose
\* directory was deleted; fix and the worktree of branch a/7
Layouts == {"main", "none", "two", "mainAndTwo", "gone", "slash"}

LayoutWorktrees(layout) ==
    CASE layout = "main" -> {MainWorktree}
      [] layout = "none" -> {}
      [] layout = "two" ->
            { Worktree(<<".", "b", "a", "r", "e">>, FALSE, <<>>, 8, 0, TRUE),
              Worktree(Dev, FALSE, Dev, 1, 3, TRUE), Worktree(Fix, FALSE, Fix, 2, 0, TRUE) }
      [] layout = "mainAndTwo" ->
            { MainWorktree, Worktree(<<".", "b", "a", "r", "e">>, FALSE, <<>>, 8, 0, TRUE),
              Worktree(Dev, FALSE, Dev, 1, 3, TRUE), Worktree(Fix, FALSE, Fix, 2, 0, TRUE) }
      [] layout = "gone" ->
            { Worktree(Fix, FALSE, Fix, 2, 0, TRUE),
              Worktree(<<"o", "l", "d">>, FALSE, <<"o", "l", "d">>, 5, 6, FALSE) }
      [] OTHER ->
            { Worktree(Fix, FALSE, Fix, 2, 0, TRUE),
              Worktree(<<"a", "-", "7">>, FALSE, <<"a", "/", "7">>, 1, 0, TRUE) }

\* the source preferences: none, latest, a branch, a branch with a "." in
\* its name, the branch of the new worktree
Sources(arg) == { <<>>, Latest, Dev, <<"a", ".", "7">>, StripOrigin(arg) }

WorktreesOf(arg, existing, layout) ==
    { w \in LayoutWorktrees(layout) :
        existing \in {"clean", "dirty"} => w.name # Sed(StripOrigin(arg)) } \cup
    CASE existing = "clean" ->
            { Worktree(Sed(StripOrigin(arg)), FALSE, StripOrigin(arg), 1, 0, TRUE) }
      [] existing = "dirty" ->
            { Worktree(Sed(StripOrigin(arg)), TRUE, StripOrigin(arg), 1, 0, TRUE) }
      [] existing = "lookalike" ->
            { Worktree([i \in 1..Len(StripOrigin(arg)) |->
                           IF Sed(StripOrigin(arg))[i] = "." THEN "_"
                           ELSE Sed(StripOrigin(arg))[i]],
                       FALSE,
                       [i \in 1..Len(StripOrigin(arg)) |->
                           IF Sed(StripOrigin(arg))[i] = "." THEN "_"
                           ELSE Sed(StripOrigin(arg))[i]],
                       1, 0, TRUE) }
      [] OTHER -> {}

Repository(arg, existing, addOk, mergeOk, layout, source) ==
    [worktrees |-> WorktreesOf(arg, existing, layout), existing |-> existing,
     layout |-> layout, source |-> source,
     addOk |-> addOk, mergeOk |-> mergeOk, merging |-> FALSE]

\* what the branch has checked out below $worktree_path
WorktreeTree(base, pb, pa, pw, p1) ==
    [ d \in { base, Sub(base, <<"api">>), Sub(base, <<"web">>),
              Sub(base, <<"web", "app1">>) }
        |-> IF d = base THEN pb
            ELSE IF d = Sub(base, <<"api">>) THEN pa
            ELSE IF d = Sub(base, <<"web">>) THEN pw
            ELSE p1 ]

WorktreeTrees(base) ==
    { WorktreeTree(base, pEmpty, pEmpty, pEmpty, pEmpty),
      WorktreeTree(base, pGo, pEmpty, pEmpty, pEmpty),
      WorktreeTree(base, pEmpty, pGo, pPnpmWs, pPkg),
      WorktreeTree(base, pGo, pEmpty, pPkg, pLocks) }

\* git.ts lines 61-64: the words createWorktree puts after the path of the
\* script
createWorktreeCommand(branchName, remoteRef) ==
    IF remoteRef = <<>> THEN <<branchName>> ELSE <<branchName, remoteRef>>

\* the words as main's loop takes them, none of them being one of the flags
Invocation(words) ==
    [branch_arg |-> words[1], rest |-> Tail(words),
     skip_install |-> FALSE, skip_merge |-> FALSE]

\* answers to the prompts of getNewWorktreeDetails: the branch name (not
\* blank) and the remote branch to base it on (empty: none)
PromptBranches == RunArgs \cup { Origin \o <<"a", "7">> }

RemoteRefs == { <<>>, Origin \o MainBranch }

InitWorktree ==
    /\ ShadowIdle
    /\ base_dir \in BaseDirs
    /\ \/ /\ argv \in [branch_arg : BranchArgs \cup {<<>>}, rest : {<<>>},
                       skip_install : {TRUE}, skip_merge : {TRUE}]
          /\ \E existing \in {"none", "dirty"} :
                git = Repository(argv.branch_arg, existing, TRUE, TRUE, "main", <<>>)
          /\ tree = WorktreeTree(base_dir, pEmpty, pEmpty, pEmpty, pEmpty)
       \/ /\ argv \in [branch_arg : RunArgs, rest : {<<>>},
                       skip_install : BOOLEAN, skip_merge : BOOLEAN]
          /\ \E existing \in {"none", "clean", "dirty", "lookalike"},
                addOk \in BOOLEAN, mergeOk \in BOOLEAN :
                git = Repository(argv.branch_arg, existing, addOk, mergeOk, "main", <<>>)
          /\ tree \in WorktreeTrees(base_dir)
       \/ /\ argv \in [branch_arg : RunArgs \cup {MainBranch}, rest : {<<>>},
                       skip_install : {TRUE}, skip_merge : {TRUE}]
          /\ \E existing \in {"none", "clean", "lookalike"}, addOk \in BOOLEAN,
                layout \in Layouts, source \in Sources(argv.branch_arg) :
                git = Repository(argv.branch_arg, existing, addOk, TRUE, layout, source)
          /\ tree = WorktreeTree(base_dir, pEmpty, pEmpty, pEmpty, pEmpty)
       \/ /\ argv \in { Invocation(createWorktreeCommand(branchName, remoteRef)) :
                           branchName \in PromptBranches, remoteRef \in RemoteRefs }
          /\ \E addOk \in BOOLEAN :
                git = Repository(argv.branch_arg, "none", addOk, TRUE, "main", <<>>)
          /\ tree \in { WorktreeTree(base_dir, pEmpty, pEmpty, pEmpty, pEmpty),
                        WorktreeTree(base_dir, pGo, pEmpty, pEmpty, pEmpty) }
    /\ pc = "main"
    /\ workspace_roots = <<>>
    /\ queue = <<>>
    /\ install_dirs = <<>>
    /\ install_managers = <<>>
    /\ detected = {}
    /\ skipped = {}
    /\ managerOf = <<>>
    /\ mpc = "args"
    /\ branch = <<>>
    /\ worktree_dir = <<>>
    /\ trace = <<>>
    /\ exit_status = -1
    /\ pids = <<>>
    /\ waited = 0
    /\ failed = 0

NextWorktree ==
    \/ MainParse \/ ExistingWorktree \/ WorktreeAdd \/ MergeDefault \/ CallInstall
    \/ InstallStart \/ VisitDir \/ PlanDone
    \/ RunNone \/ RunSingle \/ StartInstall \/ InstallExit \/ WaitInstall \/ ReportInstalls
    \/ CopyFiles \/ Ready

SpecWorktree == InitWorktree /\ [][NextWorktree]_vars

(***************************************************************************)
(* Properties of main                                                      *)
(***************************************************************************)
\* the positions of trace that hold the command
Issued(cmd) == { i \in 1..Len(trace) : trace[i].cmd = cmd }

\* the graceful removal of the worktree was tried and failed
RemovalFailed == \E i \in Issued("worktree-remove") : trace[i].b = "failed"

\* C11: when the worktree of the target name is found and its graceful
\* removal fails, the script ends with a non-zero status, issues no forced
\* removal, leaves the worktree in place and runs no later step.
C11_FailedRemovalStops ==
    RemovalFailed =>
        /\ mpc = "exited" /\ exit_status # 0
        /\ Issued("worktree-remove-force") = {}
        /\ Last(trace).cmd = "worktree-remove"
        /\ \A cmd \in {"worktree-add", "merge", "install_dependencies", "install",
                       "start", "copy", "ready"} : Issued(cmd) = {}
        /\ git.worktrees = WorktreesOf(argv.branch_arg, git.existing, git.layout)

\* the removal of a worktree with uncommitted changes has failed
C11_Witness ==
    /\ RemovalFailed
    /\ git.existing = "dirty"
    /\ \E w \in git.worktrees : w.name = worktree_dir /\ w.dirty

\* C12: the worktree directory name is the branch name with every character
\* outside [A-Za-z0-9._-] replaced by "-" and every other character kept in
\* place; it holds characters of that set only; sanitizing it again gives it
\* back; the branch given to git worktree add is the unsanitized name.
C12_DirNameIsSanitizedBranch ==
    mpc \notin {"args", "exited"} =>
        /\ Len(worktree_dir) = Len(branch)
        /\ \A i \in 1..Len(branch) :
              worktree_dir[i] = IF SafeChar(branch[i]) THEN branch[i] ELSE "-"
        /\ \A i \in 1..Len(worktree_dir) : SafeChar(worktree_dir[i])
        /\ DirNameOf(worktree_dir) = worktree_dir
        /\ branch = StripOrigin(argv.branch_arg)
        /\ \A i \in Issued("worktree-add") :
              trace[i].a = branch /\ trace[i].b = worktree_dir
        /\ (branch = ExampleBranch =>
              worktree_dir = << "f", "e", "a", "t", "u", "r", "e", "-", "A", "B", "C",
                                "-", "1", "2", "3", "-", "f", "i", "x", "-" >>)

\* install_dependencies has been entered by this run of main
InstallCalled ==
    \E i \in Issued("install_dependencies") : trace[i].b = "ok"

\* C19: with more than one install job one install is started for each job,
\* install_dependencies returns only when every started install has
\* terminated, the count it reports is the number of installs that exited
\* non-zero, and once install_dependencies has been entered the script ends
\* only with the ready message and status 0, after the copy step.
C19_InstallsAllWaitedFor ==
    /\ (InstallCalled /\ Len(install_dirs) > 1 /\ pc \in {"waiting", "returned"}) =>
          /\ Len(pids) = Len(install_dirs)
          /\ Cardinality(Issued("start")) = Len(install_dirs)
          /\ \A i \in 1..Len(install_dirs) :
                \E j \in Issued("start") :
                    trace[j].a = install_dirs[i] /\ trace[j].b = install_managers[i]
    /\ (InstallCalled /\ Len(install_dirs) > 1 /\ pc = "returned") =>
          /\ \A i \in 1..Len(pids) : pids[i].state = "exited"
          /\ failed = Cardinality({ i \in 1..Len(pids) : pids[i].code # 0 })
          /\ \E j \in Issued("report") :
                trace[j].a = failed /\ trace[j].b = Len(install_dirs)
    /\ (InstallCalled /\ mpc \in {"copy", "ready", "exited"}) => pc = "returned"
    /\ (InstallCalled /\ mpc = "exited") =>
          /\ exit_status = 0
          /\ Last(trace).cmd = "ready"
          /\ SourceWorktrees # {} =>
                \E j \in Issued("copy") :
                    \A k \in Issued("start") \cup Issued("install") \cup Issued("report") :
                        k < j

\* the script has ended after three concurrent installs of which some failed
\* and some succeeded
C19_Witness ==
    /\ mpc = "exited" /\ exit_status = 0
    /\ Len(pids) = 3 /\ failed = 2
    /\ \E i \in 1..Len(pids) : pids[i].code = 0
    /\ Issued("copy") # {}

\* the script has ended after a single install that failed
C19_WitnessSingle ==
    /\ mpc = "exited" /\ Len(install_dirs) = 1
    /\ \E i \in Issued("install") : trace[i].b = "failed"

\* the directories of the installs that are running at the same time
RunningDirs ==
    { trace[j].a : j \in { k \in Issued("start") :
        \E i \in 1..Len(pids) :
            /\ pids[i].state = "running"
            /\ Cardinality({ m \in Issued("start") : m <= k }) = i } }

\* C20 as claimed: the installs started concurrently are for pairwise
\* distinct directories none of which lies inside another.
C20_ConcurrentDirsUnrelated ==
    /\ \A j, k \in Issued("start") : j # k => trace[j].a # trace[k].a
    /\ \A d, r \in RunningDirs : ~IsInside(d, r)

\* C20: the installs started concurrently are for pairwise distinct
\* directories, each a directory of the plan with the plan's manager; a
\* directory of one job may lie inside the directory of another.
C20_ConcurrentDirsDistinct ==
    /\ \A j, k \in Issued("start") : j # k => trace[j].a # trace[k].a
    /\ \A j \in Issued("start") :
          \E i \in 1..Len(install_dirs) :
              trace[j].a = install_dirs[i] /\ trace[j].b = install_managers[i]
    /\ \A i, j \in 1..Len(install_dirs) : i # j => install_dirs[i] # install_dirs[j]

\* two installs are running at once, one in a directory inside the other's
C20_Witness ==
    /\ Cardinality(RunningDirs) > 1
    /\ \E d, r \in RunningDirs : IsInside(d, r)

\* the merge of the default branch stopped on conflicts
MergeFailed == \E i \in Issued("merge") : trace[i].b = "conflicts"

\* main is past the merge step
PastMerge ==
    \/ mpc \in {"install", "installing", "copy", "ready"}
    \/ mpc = "exited" /\ exit_status = 0

\* C23: a merge of the default branch that fails is aborted at once (no
\* merge is left in progress) and followed by the warning, and the script
\* goes on to the install step and ends with the ready message and status
\* 0; the merge is attempted in the worktree unless --no-merge is given;
\* with --no-merge no merge is attempted, and with --no-install
\* install_dependencies is not called, no install job is planned and none
\* is run.
C23_FailedMergeAbortedFlagsHonoured ==
    /\ ~git.merging
    /\ \A i \in Issued("merge") :
          trace[i].b = "conflicts" =>
              /\ i + 2 <= Len(trace)
              /\ trace[i + 1].cmd = "merge-abort"
              /\ trace[i + 2] = Cmd("warn", worktree_dir, "merge conflicts")
    /\ Issued("merge-abort") = { i + 1 : i \in { j \in Issued("merge") : trace[j].b = "conflicts" } }
    /\ MergeFailed => PastMerge
    /\ (MergeFailed /\ mpc = "exited") => Last(trace).cmd = "ready"
    /\ (PastMerge /\ ~argv.skip_merge /\ WorktreePathExists) =>
          Cardinality(Issued("merge")) = 1
    /\ (PastMerge /\ ~argv.skip_merge /\ WorktreePathExists /\ ~git.mergeOk) => MergeFailed
    /\ argv.skip_merge => Issued("merge") = {} /\ Issued("merge-abort") = {}
    /\ argv.skip_install =>
          /\ \A cmd \in {"install_dependencies", "install", "start", "report"} :
                Issued(cmd) = {}
          /\ pc = "main" /\ install_dirs = <<>> /\ pids = <<>> /\ managerOf = <<>>

\* the script has ended after a merge that failed, with installs run
C23_Witness ==
    /\ mpc = "exited" /\ MergeFailed
    /\ Issued("start") # {}

\* the script has ended with --no-merge and --no-install on a repository
\* whose merge would fail
C23_WitnessFlags ==
    /\ mpc = "exited" /\ exit_status = 0
    /\ argv.skip_merge /\ argv.skip_install /\ ~git.mergeOk /\ WorktreePathExists

\* the existing non-bare worktrees of the list
Candidates == { w \in git.worktrees : w.present /\ ~EndsWithBare(w.name) }

\* the worktrees checked out on the branch
OnBranch(b) == { w.name : w \in { x \in Candidates : x.branch = b } }

\* the activity timestamp of a worktree
Activity(w) == IF w.mtime >= w.filetime THEN w.mtime ELSE w.filetime

\* the worktrees other than the new one with the greatest activity timestamp
LatestActive ==
    { w.name : w \in
        { x \in Candidates :
            /\ x.name # worktree_dir
            /\ \A y \in Candidates : y.name # worktree_dir => Activity(y) <= Activity(x) } }

\* the worktrees the policy selects
Policy ==
    IF git.source = Latest THEN LatestActive
    ELSE IF git.source # <<>> THEN OnBranch(git.source)
    ELSE IF OnBranch(MainBranch) # {} THEN OnBranch(MainBranch)
    ELSE LatestActive

\* main is past the copy step
PastCopy == mpc = "ready" \/ (mpc = "exited" /\ Issued("ready") # {})

\* C24: the files are copied from the worktree the policy selects (a
\* configured branch: the worktree on that branch; latest: the most recently
\* active existing non-bare worktree other than the new one; no
\* configuration: the worktree on main, else the latest), and from none
\* when the policy selects none.
C24_SourceFollowsPolicy ==
    PastCopy =>
        /\ Cardinality(Issued("copy")) <= 1
        /\ Policy = {} => Issued("copy") = {}
        /\ Policy # {} => \E i \in Issued("copy") : trace[i].a \in Policy

\* C29: the files are never copied from the worktree that is being created.
C29_SourceIsNotNewWorktree ==
    \A i \in Issued("copy") : trace[i].a # worktree_dir

(***************************************************************************)
(* File system used by the shadow workspace engine.                        *)
(* A path is the sequence of its components from "/"; disk maps every      *)
(* existing path to its node.  Symlink targets are relative component      *)
(* sequences, ".." included, as path.relative produces them.               *)
(***************************************************************************)
\* symlinks followed in one resolution before it fails with ELOOP
MaxHops == 4

\* what a file holds: its kind and the ticket it names (the creation time
\* written into the marker file is left out)
Generated(tag, ticketId) == [tag |-> tag, ticket |-> ticketId]

NoData == Generated("", <<>>)

DirNode == [kind |-> "dir", data |-> NoData, target |-> <<>>]

FileNode(content) == [kind |-> "file", data |-> content, target |-> <<>>]

LinkNode(to) == [kind |-> "link", data |-> NoData, target |-> to]

\* the value a failed resolution yields (ENOENT, ENOTDIR, ELOOP)
ENOENT == <<"\n">>

Parent(p) == IF p = <<>> THEN <<>> ELSE SubSeq(p, 1, Len(p) - 1)

IsDir(d, p) == p \in DOMAIN d /\ d[p].kind = "dir"

RECURSIVE Walk(_, _, _, _, _)
\* resolve the components rest from the directory cur.  follow says whether a
\* symlink in the last component is followed.  The result is the location of
\* the entry (which need not exist if its directory does), or ENOENT.
Walk(d, cur, rest, follow, fuel) ==
    IF rest = <<>> THEN cur
    ELSE The({
        IF c = "." THEN Walk(d, cur, more, follow, fuel)
        ELSE IF c = ".." THEN Walk(d, Parent(cur), more, follow, fuel)
        ELSE IF nxt \notin DOMAIN d
             THEN IF more = <<>> THEN nxt ELSE ENOENT
        ELSE IF d[nxt].kind = "link"
             THEN IF more = <<>> /\ ~follow THEN nxt
                  ELSE IF fuel = 0 THEN ENOENT
                  ELSE Walk(d, cur, d[nxt].target \o more, follow, fuel - 1)
        ELSE IF d[nxt].kind = "dir" THEN Walk(d, nxt, more, follow, fuel)
        ELSE IF more = <<>> THEN nxt ELSE ENOENT
        : c \in {Head(rest)}, more \in {Tail(rest)}, nxt \in {Append(cur, Head(rest))} })

\* where the path leads with every symlink followed
Resolve(d, p) == Walk(d, <<>>, p, TRUE, MaxHops)

\* where the entry itself is (lstat): the last component is not followed
Locate(d, p) == Walk(d, <<>>, p, FALSE, MaxHops)

\* fs.access: the path leads to something
Access(d, p) == Resolve(d, p) \in DOMAIN d

\* fs.realpath: the canonical path, ENOENT when it leads nowhere
Realpath(d, p) == IF Access(d, p) THEN Resolve(d, p) ELSE ENOENT

Ok(d) == [ok |-> TRUE, disk |-> d]

Failed(d) == [ok |-> FALSE, disk |-> d]

Put(d, p, node) == (p :> node) @@ d

Drop(d, gone) == [q \in DOMAIN d \ gone |-> d[q]] @@ [q \in {} |-> q]

Children(d, p) == { q \in DOMAIN d : Len(q) = Len(p) + 1 /\ IsPrefix(p, q) }

RECURSIVE MkdirWalk(_, _, _)
\* fs.mkdir(path, {recursive: true}) from the existing directory cur
MkdirWalk(d, cur, rest) ==
    IF rest = <<>> THEN Ok(d)
    ELSE The({
        IF c = "." THEN MkdirWalk(d, cur, more)
        ELSE IF c = ".." THEN MkdirWalk(d, Parent(cur), more)
        ELSE IF nxt \notin DOMAIN d
             THEN The({ MkdirWalk(made, nxt, more) : made \in {Put(d, nxt, DirNode)} })
        ELSE IF d[nxt].kind = "dir" THEN MkdirWalk(d, nxt, more)
        ELSE IF d[nxt].kind = "link"
             THEN The({ IF IsDir(d, r) THEN MkdirWalk(d, r, more) ELSE Failed(d)
                        : r \in {Resolve(d, nxt)} })
        ELSE Failed(d)
        : c \in {Head(rest)}, more \in {Tail(rest)}, nxt \in {Append(cur, Head(rest))} })

MkdirP(d, p) == MkdirWalk(d, <<>>, p)

\* fs.symlink(target, path): fails when the entry exists or its directory does not
Symlink(d, to, p) ==
    The({ IF loc = ENOENT \/ loc \in DOMAIN d \/ ~IsDir(d, Parent(loc)) THEN Failed(d)
          ELSE Ok(Put(d, loc, LinkNode(to)))
          : loc \in {Locate(d, p)} })

\* fs.unlink: removes a file or a symlink, never a directory
Unlink(d, p) ==
    The({ IF loc \in DOMAIN d /\ d[loc].kind # "dir" THEN Ok(Drop(d, {loc}))
          ELSE Failed(d)
          : loc \in {Locate(d, p)} })

\* fs.rmdir: removes an empty directory
Rmdir(d, p) ==
    The({ IF IsDir(d, loc) /\ loc # <<>> /\ Children(d, loc) = {} THEN Ok(Drop(d, {loc}))
          ELSE Failed(d)
          : loc \in {Locate(d, p)} })

\* fs.rm(path, {recursive: true, force: true}): the entry and all below it;
\* symlinks are removed, not followed; a missing entry is no error
RmRf(d, p) ==
    The({ IF loc \notin DOMAIN d THEN Ok(d)
          ELSE Ok(Drop(d, { q \in DOMAIN d : IsPrefix(loc, q) }))
          : loc \in {Locate(d, p)} })

\* fs.writeFile: creates or replaces the file the path leads to
WriteFile(d, p, content) ==
    The({ IF loc = ENOENT \/ IsDir(d, loc) \/ ~IsDir(d, Parent(loc)) THEN Failed(d)
          ELSE Ok(Put(d, loc, FileNode(content)))
          : loc \in {Resolve(d, p)} })

\* fs.copyFile: the destination gets the source's content; copying a file
\* onto itself leaves it as it is
CopyFile(d, src, dst) ==
    The({ IF from \notin DOMAIN d \/ d[from].kind # "file" THEN Failed(d)
          ELSE IF to = ENOENT \/ IsDir(d, to) \/ ~IsDir(d, Parent(to)) THEN Failed(d)
          ELSE IF to = from THEN Ok(d)
          ELSE Ok(Put(d, to, FileNode(d[from].data)))
          : from \in {Resolve(d, src)}, to \in {Resolve(d, dst)} })

\* path.join: concatenation, then "." and ".." are resolved lexically
RECURSIVE Normalize(_, _)
Normalize(done, rest) ==
    IF rest = <<>> THEN done
    ELSE IF Head(rest) = "." THEN Normalize(done, Tail(rest))
    ELSE IF Head(rest) = ".." THEN Normalize(Parent(done), Tail(rest))
    ELSE Normalize(Append(done, Head(rest)), Tail(rest))

Join(a, b) == Normalize(<<>>, a \o b)

RECURSIVE CommonLen(_, _)
CommonLen(a, b) ==
    IF a = <<>> \/ b = <<>> \/ Head(a) # Head(b) THEN 0
    ELSE 1 + CommonLen(Tail(a), Tail(b))

\* path.relative(from, to) for absolute paths
Relative(from, to) ==
    LET k == CommonLen(from, to) IN
    [i \in 1..(Len(from) - k) |-> ".."] \o SubSeq(to, k + 1, Len(to))

(***************************************************************************)
(* ShadowManager (lib/shadow.ts)                                           *)
(* A name (folder.name, ticket id) is a token string: a path component,    *)
(* "/" and the separator ": " are tokens.                                  *)
(***************************************************************************)
rootDir == <<"root">>

\* constructor: path.join(rootDir, '.ticket-workspaces')
shadowDir == Join(rootDir, <<".ticket-workspaces">>)

\* the path segments of a name: path.join splits it at "/"
Components(name) == SelectSeq(name, LAMBDA tok : tok # "/")

\* the entry names of the model that begin with "."
StartsWithDot(name) ==
    name \in {".vscode", ".claude", ".shadow-workspace", ".zshrc", ".env",
              ".env.local", ".nvmrc", ".ticket-workspaces", ".git", ".bare"}

\* new RegExp(p).test(name) for the sync patterns and the names of the model
RegexTest(pattern, name) ==
    CASE pattern = "^\\.env.*" -> name \in {".env", ".env.local"}
      [] pattern = "^\\.nvmrc$" -> name = ".nvmrc"
      [] pattern = "^\\.ruby-version$" -> name = ".ruby-version"
      [] OTHER -> FALSE

defaultPatterns == {"^\\.env.*", "^\\.nvmrc$", "^\\.ruby-version$"}

parseRepoAndWorktree(folderName) ==
    LET colonIndex == IndexOf(folderName, ": ") IN
    IF colonIndex = 0
    THEN [repoName |-> <<"unknown">>, worktreeName |-> folderName]
    ELSE [repoName |-> SubSeq(folderName, 1, colonIndex - 1),
          worktreeName |-> SubSeq(folderName, colonIndex + 1, Len(folderName))]

getShadowWorkspacePath(ticketId) == Join(shadowDir, Components(ticketId))

shadowWorkspaceExists(d, ticketId) == Access(d, getShadowWorkspacePath(ticketId))

\* `${ticketId}.code-workspace`, as the segments path.join splits it in
WorkspaceFileName(ticketId) ==
    [ i \in 1..Len(Components(ticketId)) |->
        IF i = Len(Components(ticketId))
        THEN Components(ticketId)[i] \o ".code-workspace"
        ELSE Components(ticketId)[i] ]

\* findMatchingFilesRecursively: the files below dir whose name matches a
\* pattern, as paths relative to dir; directories whose name begins with "."
\* and node_modules are not entered, symlinks are neither files nor directories
MatchingFiles(d, dir, patterns) ==
    IF ~IsDir(d, dir) THEN {}
    ELSE { SubSeq(q, Len(dir) + 1, Len(q)) : q \in
            { q \in DOMAIN d :
                /\ d[q].kind = "file"
                /\ Len(q) > Len(dir)
                /\ \E pat \in patterns : RegexTest(pat, Last(q))
                /\ IsPrefix(dir, q)
                /\ \A k \in (Len(dir) + 1)..(Len(q) - 1) :
                      ~StartsWithDot(q[k]) /\ q[k] # "node_modules" } }

\* lines 377-390: the directory of the destination, then the copy; a
\* failure is logged and the loop goes on
CopyOne(d, sourceFilePath, targetFilePath) ==
    The({ IF made.ok THEN CopyFile(made.disk, sourceFilePath, targetFilePath).disk
          ELSE made.disk
          : made \in {MkdirP(d, Parent(targetFilePath))} })

RECURSIVE CopyAll(_, _, _, _)
\* the copy loop of syncNestedFiles
CopyAll(d, sourceDir, targetLinkDir, todo) ==
    IF todo = {} THEN d
    ELSE The({ The({ CopyAll(copied, sourceDir, targetLinkDir, todo \ {relativePath})
                     : copied \in { CopyOne(d, Join(sourceDir, relativePath),
                                            Join(targetLinkDir, relativePath)) } })
               : relativePath \in {CHOOSE r \in todo : TRUE} })

syncNestedFiles(d, sourceDir, targetLinkDir, patterns) ==
    The({ CopyAll(d, sourceDir, targetLinkDir, todo)
          : todo \in {MatchingFiles(d, sourceDir, patterns)} })

\* lines 343-353: the real path of one symlink, then its sync
SyncLink(d, linkPath, patterns) ==
    The({ IF realPath = ENOENT THEN d
          ELSE syncNestedFiles(d, realPath, linkPath, patterns)
          : realPath \in {Realpath(d, linkPath)} })

RECURSIVE SyncLinks(_, _, _)
\* the loop of syncNestedFilesInSymlinks over the symlinks of the directory
SyncLinks(d, links, patterns) ==
    IF links = {} THEN d
    ELSE The({ The({ SyncLinks(synced, links \ {linkPath}, patterns)
                     : synced \in {SyncLink(d, linkPath, patterns)} })
               : linkPath \in {CHOOSE l \in links : TRUE} })

syncNestedFilesInSymlinks(d, dir, patterns) ==
    The({ IF ~IsDir(d, real) THEN d
          ELSE The({ SyncLinks(d, links, patterns)
                     : links \in { { Append(dir, Last(q)) : q \in
                                      { c \in Children(d, real) : d[c].kind = "link" } } } })
          : real \in {Resolve(d, dir)} })

\* syncMatchingFiles ignores sourceDir: it syncs through every symlink of targetDir
syncMatchingFiles(d, sourceDir, targetDir, patterns) ==
    syncNestedFilesInSymlinks(d, targetDir, patterns)

SourcePath(item) == IF item.abs THEN item.path ELSE Join(rootDir, item.path)

\* one always-included item: the same steps for a folder and for a file
\* (lines 225-250 and 255-280); an item is [abs, path], the configured string
IncludeItem(d, shadowPath, item) ==
    The({ IF ~Access(d, sourcePath)
          THEN [disk |-> d, outcome |-> "warning"]
          ELSE IF Access(d, linkPath)
          THEN [disk |-> d, outcome |-> "skipped"]
          ELSE The({ IF linked.ok
                     THEN [disk |-> linked.disk, outcome |-> "added"]
                     ELSE [disk |-> d, outcome |-> "warning"]
                     : linked \in {Symlink(d, Relative(shadowPath, sourcePath), linkPath)} })
          : sourcePath \in {SourcePath(item)},
            linkPath \in {Join(shadowPath, <<Last(item.path)>>)} })

\* what the report of the always-include pass says of one item: whether its
\* source was found, where its entry is, what was there before the item was
\* processed, and the outcome
Reported(d, shadowPath, item, outcome) ==
    The({ [item |-> item,
           found |-> Access(d, SourcePath(item)),
           before |-> IF at \in DOMAIN d THEN <<d[at]>> ELSE <<>>,
           at |-> at,
           outcome |-> outcome]
          : at \in {Locate(d, Join(shadowPath, <<Last(item.path)>>))} })

RECURSIVE IncludeLoop(_, _, _, _, _)
\* the two loops of createAlwaysIncludedSymlinks
IncludeLoop(d, shadowPath, items, i, report) ==
    IF i > Len(items) THEN [disk |-> d, report |-> report]
    ELSE The({ The({ IncludeLoop(r.disk, shadowPath, items, i + 1, told)
                     : told \in {Append(report, Reported(d, shadowPath, items[i], r.outcome))} })
               : r \in {IncludeItem(d, shadowPath, items[i])} })

createAlwaysIncludedSymlinks(d, shadowPath, alwaysInclude) ==
    IncludeLoop(d, shadowPath, alwaysInclude.folders \o alwaysInclude.files, 1, <<>>)

\* what an engine operation hands back: whether it threw, the disk it left,
\* the link paths whose symlink failed (OutputService.error), the report of
\* the always-include pass
Outcome(threw, d, errors, report) ==
    [threw |-> threw, disk |-> d, errors |-> errors, report |-> report]

\* lines 189-199: the repository directory, the old symlink away, the new one
Relink(d, repoDir, linkPath, targetPath, fail) ==
    The({ IF ~made.ok THEN made
          ELSE The({ IF linkPath \in fail THEN Failed(unlinked)
                     ELSE Symlink(unlinked, targetPath, linkPath)
                     : unlinked \in {Unlink(made.disk, linkPath).disk} })
          : made \in {MkdirP(d, repoDir)} })

\* the body of the folder loop of createShadowWorkspace (lines 182-208)
CreateLink(d, shadowPath, folder, patterns, fail) ==
    The({ The({ The({ The({ IF ~linked.ok
                            THEN [disk |-> linked.disk, errors |-> {linkPath}]
                            ELSE [disk |-> syncMatchingFiles(linked.disk, folder.path,
                                                             repoDir, patterns),
                                  errors |-> {}]
                            : linked \in {Relink(d, repoDir, linkPath,
                                                 Relative(repoDir, folder.path), fail)} })
                      : linkPath \in {Join(repoDir, Components(parsed.worktreeName))} })
                : repoDir \in {Join(shadowPath, Components(parsed.repoName))} })
          : parsed \in {parseRepoAndWorktree(folder.name)} })

RECURSIVE CreateLinks(_, _, _, _, _, _, _)
CreateLinks(d, shadowPath, folders, i, patterns, fail, errors) ==
    IF i > Len(folders) THEN [disk |-> d, errors |-> errors]
    ELSE The({ CreateLinks(r.disk, shadowPath, folders, i + 1, patterns, fail,
                           errors \cup r.errors)
               : r \in {CreateLink(d, shadowPath, folders[i], patterns, fail)} })

\* one generated file of the scaffold, unless an earlier step has thrown
Generate(r, path, content) == IF r.ok THEN WriteFile(r.disk, path, content) ELSE r

\* lines 102-178: the shadow directory and the generated files
CreateScaffold(d, shadowPath, ticketId) ==
    The({ The({ The({ The({ The({ Generate(r5, Join(shadowPath, <<".vscode", "settings.json">>),
                                           Generated("settings", ticketId))
        : r5 \in {IF r4.ok THEN MkdirP(r4.disk, Join(shadowPath, <<".vscode">>)) ELSE r4} })
        : r4 \in {Generate(r3, Join(shadowPath, <<".zshrc">>), Generated("zshrc", ticketId))} })
        : r3 \in {Generate(r2, Join(shadowPath, <<"claude-here">>),
                           Generated("claude-here", ticketId))} })
        : r2 \in {Generate(r1, Join(shadowPath, <<".shadow-workspace">>),
                           Generated("shadow-workspace", ticketId))} })
        : r1 \in {MkdirP(d, shadowPath)} })

\* the folder loop and the always-include pass, on the scaffold
Populate(scaffold, shadowPath, folders, patterns, alwaysInclude, fail) ==
    IF ~scaffold.ok THEN Outcome(TRUE, scaffold.disk, {}, <<>>)
    ELSE The({ The({ Outcome(FALSE, included.disk, links.errors, included.report)
                     : included \in {createAlwaysIncludedSymlinks(links.disk, shadowPath,
                                                                  alwaysInclude)} })
               : links \in {CreateLinks(scaffold.disk, shadowPath, folders, 1,
                                        patterns, fail, {})} })

createShadowWorkspace(d, ticketId, folders, patterns, alwaysInclude, fail) ==
    The({ The({ Populate(scaffold, shadowPath, folders, patterns, alwaysInclude, fail)
                : scaffold \in {CreateScaffold(d, shadowPath, ticketId)} })
          : shadowPath \in {getShadowWorkspacePath(ticketId)} })

\* mutant: only an empty shadow directory is removed
removeShadowWorkspaceNotRecursive(d, ticketId) ==
    Ok(Rmdir(d, getShadowWorkspacePath(ticketId)).disk)

\* fs.rm(shadowPath, {recursive: true, force: true})
removeShadowWorkspace(d, ticketId) == RmRf(d, getShadowWorkspacePath(ticketId))

\* readdir of the shadow directory, lines 444-463: every directory whose name
\* does not begin with "." with the names of the symlinks it holds
existingRepos(d, shadowPath) ==
    [ name \in { Last(q) : q \in { c \in Children(d, shadowPath) :
                                     d[c].kind = "dir" /\ ~StartsWithDot(Last(c)) } }
        |-> { Last(q) : q \in { c \in Children(d, Append(shadowPath, name)) :
                                  d[c].kind = "link" } } ]

\* newRepoStructure.get(repoName), lines 466-473 and 477
newWorktreesOf(folders, repoName) ==
    { parseRepoAndWorktree(folders[i].name).worktreeName :
        i \in { j \in 1..Len(folders) :
                  parseRepoAndWorktree(folders[j].name).repoName = repoName } }

\* mutant: every existing symlink is taken for obsolete
ObsoleteAlways(newWorktrees, worktreeName) == TRUE

\* line 481: an existing symlink is removed when its name is not requested
Obsolete(newWorktrees, worktreeName) == <<worktreeName>> \notin newWorktrees

RECURSIVE UnlinkAll(_, _, _)
\* lines 480-488; fs.unlink is not guarded, a failure leaves the update
UnlinkAll(d, repoDir, todo) ==
    IF todo = {} THEN Ok(d)
    ELSE The({ The({ IF r.ok THEN UnlinkAll(r.disk, repoDir, todo \ {worktreeName})
                     ELSE r
                     : r \in {Unlink(d, Join(repoDir, <<worktreeName>>))} })
               : worktreeName \in {CHOOSE w \in todo : TRUE} })

\* one iteration of the loop of lines 476-501
PruneRepo(d, shadowPath, repoName, existingWorktrees, folders) ==
    The({ The({ IF ~r.ok THEN r
                ELSE IF newWorktrees = {} THEN Ok(Rmdir(r.disk, repoDir).disk)
                ELSE r
                : r \in {UnlinkAll(d, repoDir,
                           { w \in existingWorktrees : Obsolete(newWorktrees, w) })} })
          : newWorktrees \in {newWorktreesOf(folders, <<repoName>>)},
            repoDir \in {Join(shadowPath, <<repoName>>)} })

RECURSIVE PruneRepos(_, _, _, _, _)
PruneRepos(d, shadowPath, existing, todo, folders) ==
    IF todo = {} THEN Ok(d)
    ELSE The({ The({ IF r.ok
                     THEN PruneRepos(r.disk, shadowPath, existing, todo \ {repoName}, folders)
                     ELSE r
                     : r \in {PruneRepo(d, shadowPath, repoName, existing[repoName],
                                        folders)} })
               : repoName \in {CHOOSE n \in todo : TRUE} })

\* line 511-512: the worktree name is among the symlinks read at the start
AlreadyLinked(existing, parsed) ==
    /\ Len(parsed.repoName) = 1 /\ Len(parsed.worktreeName) = 1
    /\ parsed.repoName[1] \in DOMAIN existing
    /\ parsed.worktreeName[1] \in existing[parsed.repoName[1]]

\* lines 513-525: the repository directory, then the symlink
Link(d, repoDir, linkPath, targetPath, fail) ==
    The({ IF ~made.ok \/ linkPath \in fail THEN Failed(made.disk)
          ELSE Symlink(made.disk, targetPath, linkPath)
          : made \in {MkdirP(d, repoDir)} })

\* one iteration of the loop of lines 505-529
AddLink(d, shadowPath, folder, existing, patterns, fail) ==
    The({ The({ The({ The({ [disk |-> syncMatchingFiles(after.disk, folder.path,
                                                        repoDir, patterns),
                             errors |-> IF after.ok THEN {} ELSE {linkPath}]
                            : after \in { IF AlreadyLinked(existing, parsed) THEN Ok(d)
                                          ELSE Link(d, repoDir, linkPath,
                                                    Relative(repoDir, folder.path), fail) } })
                      : linkPath \in {Join(repoDir, Components(parsed.worktreeName))} })
                : repoDir \in {Join(shadowPath, Components(parsed.repoName))} })
          : parsed \in {parseRepoAndWorktree(folder.name)} })

RECURSIVE AddLinksAbort(_, _, _, _, _, _, _, _)
\* mutant: the first entry whose symlink fails ends the loop
AddLinksAbort(d, shadowPath, folders, i, existing, patterns, fail, errors) ==
    IF i > Len(folders) THEN [disk |-> d, errors |-> errors]
    ELSE The({ IF r.errors # {} THEN [disk |-> r.disk, errors |-> errors \cup r.errors]
               ELSE AddLinksAbort(r.disk, shadowPath, folders, i + 1, existing, patterns,
                                  fail, errors \cup r.errors)
               : r \in {AddLink(d, shadowPath, folders[i], existing, patterns, fail)} })

RECURSIVE AddLinks(_, _, _, _, _, _, _, _)
\* the loop of lines 505-529
AddLinks(d, shadowPath, folders, i, existing, patterns, fail, errors) ==
    IF i > Len(folders) THEN [disk |-> d, errors |-> errors]
    ELSE The({ AddLinks(r.disk, shadowPath, folders, i + 1, existing, patterns, fail,
                        errors \cup r.errors)
               : r \in {AddLink(d, shadowPath, folders[i], existing, patterns, fail)} })

\* lines 443-534 on an existing workspace
Reconcile(d, shadowPath, folders, patterns, alwaysInclude, fail) ==
    The({ The({ IF ~pruned.ok THEN Outcome(TRUE, pruned.disk, {}, <<>>)
                ELSE The({ The({ Outcome(FALSE, included.disk, added.errors, included.report)
                                 : included \in {createAlwaysIncludedSymlinks(
                                                    added.disk, shadowPath, alwaysInclude)} })
                           : added \in {AddLinks(pruned.disk, shadowPath, folders, 1,
                                                 existing, patterns, fail, {})} })
                : pruned \in {PruneRepos(d, shadowPath, existing, DOMAIN existing, folders)} })
          : existing \in {existingRepos(d, shadowPath)} })

\* mutant: an absent workspace is reconciled like an existing one
updateShadowWorkspaceNoCreate(d, ticketId, folders, patterns, alwaysInclude, fail) ==
    The({ Reconcile(d, shadowPath, folders, patterns, alwaysInclude, fail)
          : shadowPath \in {getShadowWorkspacePath(ticketId)} })

\* lines 430-441, then the reconciliation of an existing workspace
updateShadowWorkspace(d, ticketId, folders, patterns, alwaysInclude, fail) ==
    IF ~shadowWorkspaceExists(d, ticketId)
    THEN createShadowWorkspace(d, ticketId, folders, patterns, alwaysInclude, fail)
    ELSE The({ Reconcile(d, shadowPath, folders, patterns, alwaysInclude, fail)
               : shadowPath \in {getShadowWorkspacePath(ticketId)} })

\* the workspace object names the shadow root only, whatever the folders
createShadowWorkspaceObject(folders, ticketId) ==
    [folders |-> << [path |-> <<".">>, name |-> ticketId] >>]

\* JSON.stringify of the workspace object into `${ticketId}.code-workspace`
writeShadowWorkspaceFile(d, ticketId, workspace) ==
    WriteFile(d, Join(getShadowWorkspacePath(ticketId), WorkspaceFileName(ticketId)),
              Generated("code-workspace", workspace.folders[1].name))

(***************************************************************************)
(* WorkspaceManager (lib/workspace.ts)                                     *)
(***************************************************************************)
workspacesDir == Join(rootDir, <<".ticket-workspaces">>)

\* the engine operation, then the workspace file; a throw of either leaves
WithWorkspaceFile(r, folders, ticketId) ==
    IF r.threw THEN r
    ELSE The({ Outcome(~written.ok, written.disk, r.errors, r.report)
               : written \in {writeShadowWorkspaceFile(r.disk, ticketId,
                                  createShadowWorkspaceObject(folders, ticketId))} })

createWorkspace(d, ticketId, folders, patterns, alwaysInclude, fail) ==
    The({ WithWorkspaceFile(r, folders, ticketId)
          : r \in {createShadowWorkspace(d, ticketId, folders, patterns,
                                         alwaysInclude, fail)} })

updateWorkspace(d, ticketId, folders, patterns, alwaysInclude, fail) ==
    The({ WithWorkspaceFile(r, folders, ticketId)
          : r \in {updateShadowWorkspace(d, ticketId, folders, patterns,
                                         alwaysInclude, fail)} })

workspaceExists(d, ticketId) == shadowWorkspaceExists(d, ticketId)

removeWorkspace(d, ticketId) == removeShadowWorkspace(d, ticketId)

\* JSON.parse of the workspace file: the folders it lists
readWorkspace(d, ticketId) ==
    The({ IF at \in DOMAIN d /\ d[at].kind = "file"
          THEN [ok |-> TRUE,
                folders |-> << [path |-> <<".">>, name |-> d[at].data.ticket] >>]
          ELSE [ok |-> FALSE, folders |-> <<>>]
          : at \in {Resolve(d, Join(getShadowWorkspacePath(ticketId),
                                    WorkspaceFileName(ticketId)))} })

\* getRepos: the directories of rootDir, not hidden, that hold a directory
\* whose name does not begin with "."
getRepos(d) ==
    { r \in Children(d, rootDir) :
        /\ d[r].kind = "dir" /\ ~StartsWithDot(Last(r))
        /\ \E w \in Children(d, r) : d[w].kind = "dir" /\ ~StartsWithDot(Last(w)) }

\* getWorktrees: the directories of the repository that hold a .git entry
getWorktrees(d, repoPath) ==
    { w \in Children(d, repoPath) :
        /\ d[w].kind = "dir" /\ ~StartsWithDot(Last(w))
        /\ Access(d, Append(w, ".git")) }

(***************************************************************************)
(* createWorktree (lib/git.ts)                                             *)
(***************************************************************************)
\* the characters of a token all lie in [a-zA-Z0-9._-], for the tokens of the model
WordToken(tok) == tok \notin {"/", ": ", " ", "!"}

RECURSIVE sanitizeBranchName(_)
\* branchName.replace(/[^a-zA-Z0-9._-]/g, '-')
sanitizeBranchName(branchName) ==
    IF branchName = <<>> THEN ""
    ELSE (IF WordToken(Head(branchName)) THEN Head(branchName) ELSE "-")
         \o sanitizeBranchName(Tail(branchName))

\* the worktree script has run with success: the worktree directory exists
\* and holds its .git file; the path returned is join(repoPath, sanitizedName)
createWorktree(d, repoPath, branchName) ==
    The({ The({ [disk |-> IF made.ok
                          THEN WriteFile(made.disk, Append(worktreePath, ".git"),
                                         Generated("gitdir", branchName)).disk
                          ELSE made.disk,
                 path |-> worktreePath]
                : made \in {MkdirP(d, worktreePath)} })
          : worktreePath \in {Join(repoPath, <<sanitizeBranchName(branchName)>>)} })

(***************************************************************************)
(* The commands new, update, remove (lib/commands)                         *)
(* What the user answers to the prompts is a list of choices, one for each *)
(* selected repository: an existing worktree or a new branch.              *)
(***************************************************************************)
RepoName(repoPath) == <<Last(repoPath)>>

RECURSIVE processRepos(_, _, _, _)
\* NewCommand.processRepos and UpdateCommand.addNewRepos: the folder of each choice
processRepos(d, choices, i, folders) ==
    IF i > Len(choices) THEN [disk |-> d, folders |-> folders]
    ELSE The({ The({ processRepos(made.disk, choices, i + 1,
                         Append(folders, [path |-> made.path,
                                          name |-> RepoName(c.repo) \o <<": ">> \o c.name]))
                     : made \in { IF c.action = "existing"
                                  THEN [disk |-> d, path |-> Join(c.repo, c.name)]
                                  ELSE createWorktree(d, c.repo, c.name) } })
               : c \in {choices[i]} })

\* NewCommand.run with Overwrite? confirmed, then NewCommand.createShadowWorkspace
NewCommand(d, ticketId, choices, patterns, alwaysInclude, fail) ==
    The({ IF getRepos(d) = {} \/ choices = <<>> \/ chosen.folders = <<>>
          THEN [ran |-> FALSE, folders |-> <<>>, selected |-> <<>>,
                result |-> Outcome(FALSE, d, {}, <<>>)]
          ELSE [ran |-> TRUE, folders |-> chosen.folders, selected |-> chosen.folders,
                result |-> createWorkspace(chosen.disk, ticketId, chosen.folders,
                                           patterns, alwaysInclude, fail)]
          : chosen \in {processRepos(d, choices, 1, <<>>)} })

\* lines 38-45 of UpdateCommand.run
existingRepoNames(d, existingFolders) ==
    { Last(r) : r \in { q \in getRepos(d) :
        \E i \in 1..Len(existingFolders) :
            Parent(Join(workspacesDir, existingFolders[i].path)) = q } }

\* lines 63-69 of UpdateCommand.run
allFoldersOf(existingFolders, newFolders) ==
    [ i \in 1..Len(existingFolders) |->
        [path |-> Join(workspacesDir, existingFolders[i].path),
         name |-> existingFolders[i].name] ] \o newFolders

\* UpdateCommand.run with the action "existing", then
\* UpdateCommand.updateShadowWorkspace
UpdateCommand(d, ticketId, choices, patterns, alwaysInclude, fail) ==
    IF ~workspaceExists(d, ticketId)
    THEN [ran |-> FALSE, folders |-> <<>>, selected |-> <<>>,
          result |-> Outcome(FALSE, d, {}, <<>>)]
    ELSE The({ IF ~workspace.ok
               THEN [ran |-> FALSE, folders |-> <<>>, selected |-> <<>>,
                     result |-> Outcome(TRUE, d, {}, <<>>)]
               ELSE IF chosen.folders = <<>>
               THEN [ran |-> FALSE, folders |-> <<>>, selected |-> <<>>,
                     result |-> Outcome(FALSE, chosen.disk, {}, <<>>)]
               ELSE The({ The({ [ran |-> TRUE, folders |-> allFolders,
                                 selected |-> chosen.folders,
                                 result |-> WithWorkspaceFile(updated, allFolders, ticketId)]
                                : updated \in {updateWorkspace(chosen.disk, ticketId,
                                                   allFolders, patterns, alwaysInclude,
                                                   fail)} })
                          : allFolders \in {allFoldersOf(workspace.folders,
                                                         chosen.folders)} })
               : workspace \in {readWorkspace(d, ticketId)},
                 chosen \in {processRepos(d, choices, 1, <<>>)} })

\* mutant: a workspace that does not exist is an error of the command
RemoveCommandStrict(d, ticketId) ==
    IF ~workspaceExists(d, ticketId) THEN [ran |-> FALSE, disk |-> d, threw |-> TRUE]
    ELSE [ran |-> TRUE, disk |-> removeWorkspace(d, ticketId).disk, threw |-> FALSE]

\* RemoveCommand.run: "does not exist" is printed and run returns; the result
\* of removeWorkspace is not looked at; BaseCommand.execute exits with 1
\* only for a throw of run
RemoveCommand(d, ticketId) ==
    IF ~workspaceExists(d, ticketId) THEN [ran |-> FALSE, disk |-> d, threw |-> FALSE]
    ELSE [ran |-> TRUE, disk |-> removeWorkspace(d, ticketId).disk, threw |-> FALSE]

(***************************************************************************)
(* The workspace root the engine is run on                                 *)
(***************************************************************************)
Tickets == { <<"T1">> }

Source(tag) == FileNode(Generated(tag, <<>>))

InitialDisk ==
    ( <<"root">> :> DirNode ) @@
    ( <<"root", "backend">> :> DirNode ) @@
    ( <<"root", "backend", "main">> :> DirNode ) @@
    ( <<"root", "backend", "main", ".git">> :> Source("gitdir") ) @@
    ( <<"root", "backend", "main", ".env">> :> Source("backend-env") ) @@
    ( <<"root", "backend", "main", "pkg">> :> DirNode ) @@
    ( <<"root", "backend", "main", "pkg", ".env.local">> :> Source("pkg-env") ) @@
    ( <<"root", "frontend">> :> DirNode ) @@
    ( <<"root", "frontend", "main">> :> DirNode ) @@
    ( <<"root", "frontend", "main", ".git">> :> Source("gitdir") ) @@
    ( <<"root", "frontend", "main", ".nvmrc">> :> Source("nvmrc") ) @@
    ( <<"root", ".claude">> :> DirNode ) @@
    ( <<"root", "CLAUDE.md">> :> Source("claude-md") ) @@
    ( <<"root", "docs">> :> DirNode ) @@
    ( <<"root", "docs", "CLAUDE.md">> :> Source("docs-claude-md") ) @@
    ( <<"root", "shared">> :> DirNode ) @@
    ( <<"root", "shared", "backend">> :> DirNode )

Existing(repo, worktree) ==
    [repo |-> Join(rootDir, <<repo>>), action |-> "existing", name |-> <<worktree>>]

NewBranch(repo, branchName) ==
    [repo |-> Join(rootDir, <<repo>>), action |-> "new", name |-> branchName]

\* the answers to the prompts: at most one choice for each repository
ChoiceLists ==
    { <<Existing("backend", "main")>>,
      <<NewBranch("backend", <<"feature", "/", "t1">>)>>,
      <<Existing("frontend", "main")>>,
      <<Existing("backend", "main"), Existing("frontend", "main")>> }

Folder(repo, worktreeName, dir) ==
    [path |-> Join(rootDir, <<repo, dir>>), name |-> <<repo, ": ">> \o worktreeName]

\* the folder lists the update operation is called with
FolderLists ==
    LET f1 == Folder("backend", <<"main">>, "main")
        f2 == Folder("backend", <<"feature", "/", "t1">>, "feature-t1")
        f3 == Folder("frontend", <<"main">>, "main")
    IN  { <<>>, <<f1>>, <<f1, f3>>, <<f2, f3>> }

Item(path) == [abs |-> FALSE, path |-> path]

\* shadow.alwaysInclude of the configuration file
AlwaysIncludeConfigs ==
    { [folders |-> <<Item(<<".claude">>)>>, files |-> <<Item(<<"CLAUDE.md">>)>>],
      [folders |-> <<Item(<<"shared", "backend">>)>>,
       files |-> <<Item(<<"docs", "CLAUDE.md">>), Item(<<"CLAUDE.md">>)>>] }

\* the shadow section of the configuration file: no location with either
\* alwaysInclude, and a location of its own
ShadowConfigs ==
    { [location |-> "", alwaysInclude |-> a] : a \in AlwaysIncludeConfigs } \cup
    { [location |-> "workspaces",
       alwaysInclude |-> [folders |-> <<Item(<<".claude">>)>>,
                          files |-> <<Item(<<"CLAUDE.md">>)>>]] }

\* ConfigManager.getShadowConfigAsync: the section merged with the defaults
getShadowConfigAsync(cfg) ==
    [location |-> IF cfg.location = "" THEN ".ticket-workspaces" ELSE cfg.location,
     alwaysInclude |-> cfg.alwaysInclude]

\* the symlink call the file system refuses in the runs with a fault: the
\* one for the main worktree of backend
RefusedLinks == { Join(shadowDir, <<"T1", "backend", "main">>) }

\* the symlink calls that fail during one operation: none, or those the
\* file system refuses
Failures == { {}, faults }

\* the repo/worktree symlinks of a workspace: the symlinks inside the
\* directories of the shadow root whose name does not begin with "."
RepoLinks(d, ticketId) ==
    The({ { [at |-> q, target |-> d[q].target] : q \in
              { c \in DOMAIN d :
                  /\ Len(c) = Len(shadowPath) + 2 /\ IsPrefix(shadowPath, c)
                  /\ d[c].kind = "link"
                  /\ d[Parent(c)].kind = "dir" /\ ~StartsWithDot(Last(Parent(c))) } }
          : shadowPath \in {getShadowWorkspacePath(ticketId)} })

\* the record of an operation: its arguments (the folders it was run with,
\* those the user selected), the repo/worktree symlinks that were there
\* before it, the symlink calls that failed during it, and what it reported
Done(op, ticketId, folders, selected, before, fail, r) ==
    [op |-> op, ticket |-> ticketId, folders |-> folders, selected |-> selected,
     fail |-> fail,
     links |-> IF ticketId = <<>> THEN {} ELSE RepoLinks(before, ticketId),
     threw |-> r.threw, errors |-> r.errors, report |-> r.report]

\* the shadow engine runs with the install planner idle
PlanIdle ==
    /\ base_dir = <<>> /\ tree = <<>> /\ pc = "idle" /\ workspace_roots = <<>>
    /\ queue = <<>> /\ install_dirs = <<>> /\ install_managers = <<>>
    /\ detected = {} /\ skipped = {} /\ managerOf = <<>>

\* the workspace root before any command, the install planner idle
InitShadow ==
    /\ PlanIdle
    /\ ScriptIdle
    /\ disk = InitialDisk
    /\ config \in ShadowConfigs
    /\ lastOp = Done("none", <<>>, <<>>, <<>>, InitialDisk, {}, Outcome(FALSE, InitialDisk, {}, <<>>))
    /\ faults = {}

\* the same workspace root on a file system that may refuse a symlink
InitFaulty ==
    /\ PlanIdle
    /\ ScriptIdle
    /\ disk = InitialDisk
    /\ config \in ShadowConfigs
    /\ lastOp = Done("none", <<>>, <<>>, <<>>, InitialDisk, {}, Outcome(FALSE, InitialDisk, {}, <<>>))
    /\ faults = RefusedLinks

\* every choice names a repository getRepos lists and, for an existing
\* worktree, one that getWorktrees lists
Selectable(d, choices) ==
    \A i \in 1..Len(choices) :
        /\ choices[i].repo \in getRepos(d)
        /\ choices[i].action = "existing" =>
              Join(choices[i].repo, choices[i].name) \in getWorktrees(d, choices[i].repo)

\* tw new <ticket>
TwNew ==
    \E ticketId \in Tickets, choices \in ChoiceLists, fail \in Failures :
        /\ Selectable(disk, choices)
        /\ \E run \in {NewCommand(disk, ticketId, choices, defaultPatterns,
                                    getShadowConfigAsync(config).alwaysInclude, fail)} :
               /\ run.ran
               /\ disk' = run.result.disk
               /\ lastOp' = Done("create", ticketId, run.folders, run.selected, disk, fail,
                                 run.result)
        /\ UNCHANGED <<config, faults>>
        /\ UNCHANGED planVars
        /\ UNCHANGED scriptVars

\* tw update <ticket>
TwUpdate ==
    \E ticketId \in Tickets, choices \in ChoiceLists, fail \in Failures :
        /\ Selectable(disk, choices)
        /\ \E run \in {UpdateCommand(disk, ticketId, choices, defaultPatterns,
                                       getShadowConfigAsync(config).alwaysInclude, fail)} :
               /\ run.ran
               /\ disk' = run.result.disk
               /\ lastOp' = Done("tw-update", ticketId, run.folders, run.selected, disk, fail,
                                 run.result)
        /\ UNCHANGED <<config, faults>>
        /\ UNCHANGED planVars
        /\ UNCHANGED scriptVars

\* WorkspaceManager.updateWorkspace with a folder list of existing worktrees
UpdateWorkspace ==
    \E ticketId \in Tickets, folders \in FolderLists, fail \in Failures :
        /\ \A i \in 1..Len(folders) : Access(disk, folders[i].path)
        /\ \E r \in {updateWorkspace(disk, ticketId, folders, defaultPatterns,
                                       getShadowConfigAsync(config).alwaysInclude, fail)} :
               /\ disk' = r.disk
               /\ lastOp' = Done(IF workspaceExists(disk, ticketId)
                                 THEN "update" ELSE "update-new",
                                 ticketId, folders, folders, disk, fail, r)
        /\ UNCHANGED <<config, faults>>
        /\ UNCHANGED planVars
        /\ UNCHANGED scriptVars

\* tw remove <ticket>
TwRemove ==
    \E ticketId \in Tickets :
        /\ \E run \in {RemoveCommand(disk, ticketId)} :
               /\ disk' = run.disk
               /\ lastOp' = Done(IF run.ran THEN "remove" ELSE "remove-absent",
                                 ticketId, <<>>, <<>>, disk, {},
                                 Outcome(run.threw, run.disk, {}, <<>>))
        /\ UNCHANGED <<config, faults>>
        /\ UNCHANGED planVars
        /\ UNCHANGED scriptVars

\* the user deletes the source of an always-included file
DeleteSource ==
    /\ <<"root", "docs", "CLAUDE.md">> \in DOMAIN disk
    /\ disk' = Drop(disk, { <<"root", "docs", "CLAUDE.md">> })
    /\ lastOp' = Done("env", <<>>, <<>>, <<>>, disk, {}, Outcome(FALSE, disk, {}, <<>>))
    /\ UNCHANGED <<config, faults>>
    /\ UNCHANGED planVars
    /\ UNCHANGED scriptVars

\* the ticket ids of the command line: a name, and ids with ".", ".." and "/"
TicketArgs == { <<"T1">>, <<".">>, <<"..">>, <<"..", "/", "backend">> }

\* the workspace root with the default configuration
InitAnyTicket ==
    /\ PlanIdle
    /\ ScriptIdle
    /\ disk = InitialDisk
    /\ config = [location |-> "",
                 alwaysInclude |-> [folders |-> <<Item(<<".claude">>)>>,
                                    files |-> <<Item(<<"CLAUDE.md">>)>>]]
    /\ lastOp = Done("none", <<>>, <<>>, <<>>, InitialDisk, {}, Outcome(FALSE, InitialDisk, {}, <<>>))
    /\ faults = {}

\* tw new <ticketId> for any ticket id
TwNewAny ==
    \E ticketId \in TicketArgs,
       choices \in { <<Existing("backend", "main")>>, <<Existing("frontend", "main")>> } :
        /\ Selectable(disk, choices)
        /\ \E run \in {NewCommand(disk, ticketId, choices, defaultPatterns,
                                    getShadowConfigAsync(config).alwaysInclude, {})} :
               /\ run.ran
               /\ disk' = run.result.disk
               /\ lastOp' = Done("create", ticketId, run.folders, run.selected, disk, {},
                                 run.result)
        /\ UNCHANGED <<config, faults>>
        /\ UNCHANGED planVars
        /\ UNCHANGED scriptVars

\* tw remove <ticketId> for any ticket id
TwRemoveAny ==
    \E ticketId \in TicketArgs :
        /\ \E run \in {RemoveCommand(disk, ticketId)} :
               /\ disk' = run.disk
               /\ lastOp' = Done(IF run.ran THEN "remove" ELSE "remove-absent",
                                 ticketId, <<>>, <<>>, disk, {},
                                 Outcome(run.threw, run.disk, {}, <<>>))
        /\ UNCHANGED <<config, faults>>
        /\ UNCHANGED planVars
        /\ UNCHANGED scriptVars

NextAnyTicket == TwNewAny \/ TwRemoveAny

SpecAnyTicket == InitAnyTicket /\ [][NextAnyTicket]_vars

NextShadow == TwNew \/ TwUpdate \/ UpdateWorkspace \/ TwRemove \/ DeleteSource

SpecShadow == InitShadow /\ [][NextShadow]_vars

\* the engine operations and the commands that lead to them, with a fault
NextFaulty == TwNew \/ UpdateWorkspace \/ TwRemove

SpecFaulty == InitFaulty /\ [][NextFaulty]_vars

(***************************************************************************)
(* Properties of the shadow workspace engine                               *)
(***************************************************************************)
\* <shadow>/<repo>/<worktree> of a folder
LinkPathOf(ticketId, folder) ==
    LET parsed == parseRepoAndWorktree(folder.name) IN
    Join(getShadowWorkspacePath(ticketId),
         Components(parsed.repoName) \o Components(parsed.worktreeName))

\* the folder has its entry: a symlink at its link path that leads to its worktree
HasEntry(d, ticketId, folder) ==
    LET at == Locate(d, LinkPathOf(ticketId, folder)) IN
    /\ at \in DOMAIN d /\ d[at].kind = "link"
    /\ Resolve(d, LinkPathOf(ticketId, folder)) = folder.path

Range(s) == { s[i] : i \in 1..Len(s) }

\* C4: tw update on an existing workspace keeps every repo/worktree symlink
\* that was there before the command, and the symlinks it creates are those
\* of the folders the user selected.
C4_TwUpdateKeepsAndAddsSelected ==
    (lastOp.op = "tw-update" /\ ~lastOp.threw) =>
        /\ lastOp.links \subseteq RepoLinks(disk, lastOp.ticket)
        /\ \A l \in RepoLinks(disk, lastOp.ticket) \ lastOp.links :
              \E f \in Range(lastOp.selected) : LinkPathOf(lastOp.ticket, f) = l.at

\* C5: after create or update, every file of a linked worktree that matches a
\* sync pattern has a copy in the shadow workspace at the same relative
\* location, and the copy is a file of its own, not the worktree's file.
C5_SyncedFilesAreCopies ==
    (lastOp.op \in {"create", "update", "update-new"} /\ ~lastOp.threw) =>
        \A f \in Range(lastOp.folders) :
            HasEntry(disk, lastOp.ticket, f) =>
                \A rel \in MatchingFiles(disk, f.path, defaultPatterns) :
                    LET copy == Resolve(disk, Join(LinkPathOf(lastOp.ticket, f), rel)) IN
                    /\ copy \in DOMAIN disk /\ disk[copy].kind = "file"
                    /\ copy # Resolve(disk, Join(f.path, rel))

\* C6: create leaves, for every folder it was given, a symlink at
\* <shadow>/<repo>/<worktree> that resolves to the folder's worktree path.
C6_CreateLinksEveryFolder ==
    (lastOp.op = "create" /\ ~lastOp.threw) =>
        \A f \in Range(lastOp.folders) : HasEntry(disk, lastOp.ticket, f)

\* the directories of the shadow root whose name does not begin with "."
RepoDirs(d, ticketId) ==
    { c \in Children(d, getShadowWorkspacePath(ticketId)) :
        d[c].kind = "dir" /\ ~StartsWithDot(Last(c)) }

\* C7: after update on an existing workspace with folder list F, the
\* repository directories and the repo/worktree symlinks of the workspace
\* are exactly those F induces.
C7_UpdateYieldsExactlyF ==
    (lastOp.op = "update" /\ ~lastOp.threw) =>
        /\ RepoDirs(disk, lastOp.ticket) =
              { Parent(LinkPathOf(lastOp.ticket, f)) : f \in Range(lastOp.folders) }
        /\ { l.at : l \in RepoLinks(disk, lastOp.ticket) } =
              { LinkPathOf(lastOp.ticket, f) : f \in Range(lastOp.folders) }
        /\ \A f \in Range(lastOp.folders) : HasEntry(disk, lastOp.ticket, f)

\* C8: update is idempotent: after update(F), a second update(F) leaves
\* every symlink, directory and file as it is.
C8_UpdateIdempotent ==
    (lastOp.op \in {"update", "update-new"} /\ ~lastOp.threw) =>
        updateWorkspace(disk, lastOp.ticket, lastOp.folders, defaultPatterns,
                        getShadowConfigAsync(config).alwaysInclude, {}).disk = disk

\* an update that removed a symlink and added another has just run
C8_Witness ==
    /\ lastOp.op = "update" /\ ~lastOp.threw
    /\ lastOp.links \ RepoLinks(disk, lastOp.ticket) # {}
    /\ RepoLinks(disk, lastOp.ticket) \ lastOp.links # {}

\* C9: after remove nothing is left at the ticket's shadow path, and
\* workspaceExists reports false.
C9_RemoveLeavesNothing ==
    lastOp.op = "remove" =>
        /\ \A q \in DOMAIN disk : ~IsPrefix(getShadowWorkspacePath(lastOp.ticket), q)
        /\ ~workspaceExists(disk, lastOp.ticket)

\* a workspace that held repo/worktree symlinks has just been removed
C9_Witness == lastOp.op = "remove" /\ lastOp.links # {}

\* C10: an always-include item whose source is found and whose base name is
\* already taken at the shadow root is reported as skipped, and the entry
\* that was there is left as it was.
C10_ExistingEntrySkipped ==
    (lastOp.op \in {"create", "update", "update-new", "tw-update"} /\ ~lastOp.threw) =>
        \A r \in Range(lastOp.report) :
            (r.found /\ r.before # <<>>) =>
                /\ r.outcome = "skipped"
                /\ r.at \in DOMAIN disk /\ disk[r.at] = r.before[1]

\* C13: update on a ticket that has no shadow directory leaves the disk that
\* create leaves when run with the same arguments, and hands back what
\* create hands back (the shadow path, or the same throw).
C13_UpdateAbsentIsCreate ==
    [][ lastOp'.op = "update-new" =>
          \E made \in {createWorkspace(disk, lastOp'.ticket, lastOp'.folders,
                                       defaultPatterns,
                                       getShadowConfigAsync(config).alwaysInclude,
                                       lastOp'.fail)} :
              /\ disk' = made.disk
              /\ lastOp'.threw = made.threw
              /\ lastOp'.errors = made.errors
              /\ lastOp'.report = made.report ]_vars

\* update has just built a workspace that was absent: marker file, generated
\* files, repo/worktree symlinks and an always-included item
C13_Witness ==
    /\ lastOp.op = "update-new" /\ ~lastOp.threw /\ lastOp.links = {}
    /\ Join(getShadowWorkspacePath(lastOp.ticket), <<".shadow-workspace">>) \in DOMAIN disk
    /\ Cardinality(RepoLinks(disk, lastOp.ticket)) = 2
    /\ \E i \in 1..Len(lastOp.report) : lastOp.report[i].outcome = "added"

\* C14: remove on a ticket that has no shadow directory leaves the disk as it
\* is and raises nothing: the command ends without the exit of handleError,
\* and removeShadowWorkspace, called on that disk, returns true and changes
\* nothing.
C14_RemoveAbsentIsNoOp ==
    [][ lastOp'.op = "remove-absent" =>
          /\ ~workspaceExists(disk, lastOp'.ticket)
          /\ disk' = disk
          /\ ~lastOp'.threw
          /\ removeShadowWorkspace(disk, lastOp'.ticket) = Ok(disk) ]_vars

\* tw remove has just run on a ticket whose workspace had been removed before
C14_Witness ==
    /\ lastOp.op = "remove-absent"
    /\ ~workspaceExists(disk, lastOp.ticket)
    /\ disk # InitialDisk

\* a stored symlink target that is a relative path: the paths of the model
\* that are absolute begin with the root directory
RelativeTarget(target) == target # <<>> /\ Head(target) # Head(rootDir)

\* the symlink at loc, read from the directory that holds it, leads to dest
LeadsTo(d, loc, dest) ==
    /\ RelativeTarget(d[loc].target)
    /\ Resolve(d, Parent(loc) \o d[loc].target) = dest

\* C15: after create or update, the symlink of every requested folder and of
\* every always-included item the operation added stores a relative target
\* which, resolved from the directory that contains the symlink, is the
\* folder's worktree or the item's source.
C15_StoredTargetsRelativeAndRight ==
    (lastOp.op \in {"create", "update", "update-new", "tw-update"} /\ ~lastOp.threw) =>
        /\ \A f \in Range(lastOp.folders) :
              \A loc \in {Locate(disk, LinkPathOf(lastOp.ticket, f))} :
                  (loc \in DOMAIN disk /\ disk[loc].kind = "link") =>
                      LeadsTo(disk, loc, f.path)
        /\ \A r \in Range(lastOp.report) :
              r.outcome = "added" =>
                  /\ r.at \in DOMAIN disk /\ disk[r.at].kind = "link"
                  /\ LeadsTo(disk, r.at, Resolve(disk, SourcePath(r.item)))

\* <root>/<shadow.location>/<T>, the location as the configuration gives it
ConfiguredShadowPath(ticketId) ==
    Join(rootDir, <<getShadowConfigAsync(config).location>> \o Components(ticketId))

\* C16: the shadow workspace of a ticket is at <root>/<shadow.location>/<T>:
\* it is there after create and update, nothing is there after remove, and
\* workspaceExists answers for that path.
C16_WorkspaceAtConfiguredLocation ==
    /\ (lastOp.op \in {"create", "update", "update-new", "tw-update"} /\ ~lastOp.threw) =>
            IsDir(disk, ConfiguredShadowPath(lastOp.ticket))
    /\ lastOp.op = "remove" => ~Access(disk, ConfiguredShadowPath(lastOp.ticket))
    /\ \A t \in Tickets : workspaceExists(disk, t) = Access(disk, ConfiguredShadowPath(t))

\* the two disks hold the same entries everywhere but at the places given
SameBut(d1, d2, places) ==
    \A q \in (DOMAIN d1 \cup DOMAIN d2) \ places :
        q \in DOMAIN d1 /\ q \in DOMAIN d2 /\ d1[q] = d2[q]

\* what the operation recorded in op would have done from disk d with no
\* symlink call refused
Unfailed(d, op) ==
    IF op.op = "create"
    THEN { run.result : run \in
             { NewCommand(d, op.ticket, choices, defaultPatterns,
                          getShadowConfigAsync(config).alwaysInclude, {}) :
                 choices \in { c \in ChoiceLists :
                     /\ Selectable(d, c)
                     /\ \E tried \in {NewCommand(d, op.ticket, c, defaultPatterns,
                                          getShadowConfigAsync(config).alwaysInclude,
                                          op.fail)} :
                            tried.ran /\ tried.folders = op.folders } } }
    ELSE { updateWorkspace(d, op.ticket, op.folders, defaultPatterns,
                           getShadowConfigAsync(config).alwaysInclude, {}) }

\* C17: when the symlink call of one entry is refused during create or
\* update, the operation does not throw, and apart from that entry's symlink
\* the disk, the logged errors and the always-include report are those of
\* the same operation with no call refused.
C17_FailureLeavesOthers ==
    [][ (lastOp'.op \in {"create", "update", "update-new"} /\ lastOp'.fail # {}) =>
          /\ ~lastOp'.threw
          /\ \A clean \in Unfailed(disk, lastOp') :
                /\ ~clean.threw
                /\ SameBut(disk', clean.disk,
                           { Locate(clean.disk, p) : p \in lastOp'.fail })
                /\ lastOp'.errors \ lastOp'.fail = clean.errors \ lastOp'.fail
                /\ lastOp'.report = clean.report ]_vars

\* an update in which the symlink of one entry was refused has added the
\* symlink of another entry and an always-included item
C17_Witness ==
    /\ lastOp.op = "update" /\ ~lastOp.threw
    /\ lastOp.errors \cap lastOp.fail # {}
    /\ Len(lastOp.folders) = 2
    /\ RepoLinks(disk, lastOp.ticket) \ lastOp.links # {}

\* a create in which the symlink of the first entry was refused has linked
\* the second entry and added an always-included item
C17_WitnessCreate ==
    /\ lastOp.op = "create" /\ ~lastOp.threw
    /\ lastOp.errors \cap lastOp.fail # {}
    /\ Len(lastOp.folders) = 2
    /\ RepoLinks(disk, lastOp.ticket) # {}
    /\ \E i \in 1..Len(lastOp.report) : lastOp.report[i].outcome = "added"

\* C18: after a create or update that logged a symlink failure for some
\* requested entry, an update with the same folders and no symlink call
\* refused leaves every requested entry as a symlink that resolves to its
\* worktree.
C18_RerunRepairs ==
    (lastOp.op \in {"create", "update", "update-new"} /\ ~lastOp.threw
       /\ lastOp.errors # {}) =>
        \A again \in {updateWorkspace(disk, lastOp.ticket, lastOp.folders, defaultPatterns,
                                      getShadowConfigAsync(config).alwaysInclude, {})} :
            /\ ~again.threw
            /\ \A f \in Range(lastOp.folders) : HasEntry(again.disk, lastOp.ticket, f)

\* the path is neither the shadow directory of the ticket, nor below it,
\* nor one of the directories that lead to it
Outside(ticketId, p) ==
    /\ ~IsPrefix(getShadowWorkspacePath(ticketId), p)
    /\ ~IsPrefix(p, getShadowWorkspacePath(ticketId))

\* C26: a create, update or remove of a ticket leaves every file, directory
\* and symlink outside the ticket's shadow directory as it was, and an
\* update or remove creates nothing outside it (a create or tw update may
\* add the worktrees the user asked for).
C26_OnlyShadowDirectoryChanges ==
    [][ lastOp'.op \in {"create", "update", "update-new", "tw-update", "remove"} =>
          /\ \A p \in DOMAIN disk :
                Outside(lastOp'.ticket, p) => (p \in DOMAIN disk' /\ disk'[p] = disk[p])
          /\ lastOp'.op \in {"update", "update-new", "remove"} =>
                \A p \in DOMAIN disk' : Outside(lastOp'.ticket, p) => p \in DOMAIN disk
      ]_vars

\* C27: the path tw new writes to and tw remove deletes lies strictly inside
\* the shadow location: it is not the shadow location, the root directory
\* or a directory of a repository, and the root directory and what it held
\* are still there after the command.
C27_TicketPathInsideShadowLocation ==
    lastOp.op \in {"create", "remove"} =>
        /\ IsPrefix(shadowDir, getShadowWorkspacePath(lastOp.ticket))
        /\ Len(getShadowWorkspacePath(lastOp.ticket)) > Len(shadowDir)
        /\ DOMAIN InitialDisk \subseteq DOMAIN disk

\* C28: after tw new on a ticket whose workspace held repo/worktree symlinks,
\* the repo/worktree symlinks of the workspace are exactly those of the
\* folders of this run; a symlink of the previous workspace that was not
\* requested again is gone.
C28_OverwriteKeepsRequestedOnly ==
    (lastOp.op = "create" /\ lastOp.links # {} /\ ~lastOp.threw) =>
        /\ { l.at : l \in RepoLinks(disk, lastOp.ticket) } =
              { LinkPathOf(lastOp.ticket, f) : f \in Range(lastOp.folders) }
        /\ \A l \in lastOp.links :
              \/ l.at \in { LinkPathOf(lastOp.ticket, f) : f \in Range(lastOp.folders) }
              \/ l.at \notin DOMAIN disk

(***************************************************************************)
(* Properties of createWorktree run on git-worktree.sh                     *)
(***************************************************************************)
\* one of the git worktree add invocations has succeeded and the directory
\* of the worktree is there
Created == git.addOk /\ \E w \in git.worktrees : w.name = worktree_dir /\ w.present

\* git.ts lines 68-80: execAsync resolves when the command exits 0, and
\* createWorktree then returns worktreePath
createWorktreeResolves == mpc = "exited" /\ exit_status = 0

\* C25: the script prints the ready message, and exits 0 so that
\* createWorktree resolves, only if a git worktree add has succeeded and the
\* worktree directory exists; when the script has gone as far as git
\* worktree add and every attempt failed, it ends with a non-zero status.
C25_ReadyOnlyWhenWorktreeCreated ==
    /\ (Issued("ready") # {} \/ createWorktreeResolves) => Created
    /\ (mpc = "exited" /\ Issued("worktree-add") # {} /\ ~Created) => exit_status # 0

\* the characters of a name as one string
RECURSIVE Text(_)
Text(name) == IF name = <<>> THEN "" ELSE Head(name) \o Text(Tail(name))

\* the script was given the words createWorktree passes for a branch name
\* and an optional remote branch
FromCreateWorktree ==
    \E branchName \in PromptBranches, remoteRef \in RemoteRefs :
        argv = Invocation(createWorktreeCommand(branchName, remoteRef))

\* C30: run on the words createWorktree passes, the script takes the words
\* (it ends before git worktree add only because the removal of an existing
\* worktree failed) and creates the worktree in the directory whose name
\* createWorktree derives from the branch name.
C30_ReturnedPathIsScriptDirectory ==
    FromCreateWorktree =>
        /\ (mpc = "exited" /\ Issued("worktree-add") = {}) => RemovalFailed
        /\ \A i \in Issued("worktree-add") :
              Text(trace[i].b) = sanitizeBranchName(argv.branch_arg)

====
